---- MODULE Spec2Model ----
(***************************************************************************)
(* kairos-trie: a binary Patricia Merkle trie over 256-bit keys, with a    *)
(* prover-side SnapshotBuilder store, a verifier-side Snapshot store and   *)
(* the Transaction engine that runs over either.                           *)
(*                                                                         *)
(* Conventions.                                                            *)
(*  - A u32 word is the set of the positions of its 1 bits (a subset of    *)
(*    0..31), so the bitwise operators of the code are set operations and  *)
(*    the width of the word is exact.                                      *)
(*  - Rust indices are 0-based, TLA+ sequences are 1-based: the word i of  *)
(*    a key is key[i + 1], the arena entry idx is nodes[idx + 1].          *)
(*  - Option<V> is 0 for None and the value for Some.                      *)
(*  - A NodeHash is the sequence of fields the code feeds to the hasher    *)
(*    (the hasher is taken to be injective on its input).                  *)
(*  - The model follows the release build: debug assertions and overflow   *)
(*    checks are not executed.  Every place where a debug build would stop *)
(*    sets the flag dbg; every panic common to all builds sets panic.      *)
(***************************************************************************)
EXTENDS Integers, Sequences, FiniteSets, TLC

(***************************************************************************)
(* 32-bit words                                                            *)
(***************************************************************************)
WordBits == 32

KeyWords == 8

AllBits == 0..(WordBits - 1)

\* The word of a natural number below 2^31.
RECURSIVE BitsFrom(_, _)
BitsFrom(n, pos) ==
    IF n = 0 THEN {}
    ELSE (IF n % 2 = 1 THEN {pos} ELSE {}) \cup BitsFrom(n \div 2, pos + 1)

W(n) == BitsFrom(n, 0)

BitXor(a, b) == (a \ b) \cup (b \ a)

BitAnd(a, b) == a \cap b

BitOr(a, b) == a \cup b

\* u32::trailing_zeros
TrailingZeros(x) ==
    IF x = {} THEN WordBits
    ELSE CHOOSE i \in x : \A j \in x : i <= j

\* u32 `1 << n` of the release build: the shift amount is taken modulo 32.
Shl1(n) == {n % WordBits}

\* u32 `x - 1` of the release build (wrapping).
WrapDec(x) ==
    IF x = {} THEN AllBits
    ELSE LET t == TrailingZeros(x) IN (x \ {t}) \cup {i \in AllBits : i < t}

\* usize::saturating_sub
SatSub(a, b) == IF a >= b THEN a - b ELSE 0

\* s[from..to] of a 0-based slice, for from <= to <= len
Slice(s, from, to) == [i \in 1..(to - from) |-> s[from + i]]

(***************************************************************************)
(* BranchMask (transaction/nodes.rs)                                       *)
(***************************************************************************)
new_inner(word_idx, a, diff) ==
    LET rbi == TrailingZeros(diff)
        pmask == WrapDec(Shl1(rbi))
    IN [bit_idx |-> word_idx * 32 + rbi,
        left_prefix |-> BitAnd(a, pmask)]

BranchMaskNew(word_idx, a, b) == new_inner(word_idx, a, BitXor(a, b))

new_with_mask(word_idx, a, b, pmask) ==
    new_inner(word_idx, a, BitAnd(BitXor(a, b), pmask))

mask_word_idx(m) == m.bit_idx \div 32

relative_bit_idx(m) == m.bit_idx % 32

discriminant_bit_mask(m) == Shl1(relative_bit_idx(m))

\* Mutant: no special case for the discriminant bit 31.
prefix_discriminant_mask_shift(m) == WrapDec(Shl1(relative_bit_idx(m) + 1))

prefix_discriminant_mask(m) ==
    IF relative_bit_idx(m) = 31 THEN AllBits
    ELSE WrapDec(Shl1(relative_bit_idx(m) + 1))

right_prefix(m) == BitOr(m.left_prefix, discriminant_bit_mask(m))

is_left_descendant(m, hash_segment) ==
    BitAnd(hash_segment, prefix_discriminant_mask(m)) = m.left_prefix

is_right_descendant(m, hash_segment) ==
    BitAnd(hash_segment, prefix_discriminant_mask(m)) = right_prefix(m)

prefix_mask(m) == BitXor(prefix_discriminant_mask(m), discriminant_bit_mask(m))

(***************************************************************************)
(* Nodes (transaction/nodes.rs)                                            *)
(*   NodeRef:  ModBranch [t |-> "B", left, right, mask, prior_word, prefix]*)
(*             ModLeaf   [t |-> "L", key_hash, value]                      *)
(*             Stored    [t |-> "S", idx]                                  *)
(*   A stored Branch<Idx> or a database Branch<NodeHash> has the same      *)
(*   fields as a ModBranch, with indices or hashes for left and right.     *)
(***************************************************************************)
ModLeaf(key_hash, value) == [t |-> "L", key_hash |-> key_hash, value |-> value]

Stored(idx) == [t |-> "S", idx |-> idx]

MkBranch(left, right, mask, prior_word, prefix) ==
    [t |-> "B", left |-> left, right |-> right, mask |-> mask,
     prior_word |-> prior_word, prefix |-> prefix]

\* u32::MAX, an index no store holds; written as the largest integer.
U32_MAX == 2147483647

\* NodeRef::temp_null_stored: the placeholder of a structural edit
temp_null_stored == Stored(U32_MAX)

\* TrieRoot<NodeRef>::Empty
EmptyRoot == [t |-> "E"]

\* TrieRoot<NodeHash>::Empty; TrieRoot::Node(hash) is written hash.
EmptyHash == <<>>

\* KeyPosition: pos is "Left", "Right", "PrefixOfWord", "PriorWord",
\* "PrefixVec" or "Panic" (index out of bounds); idx is the word index of an
\* Adjacent position, with usize::MAX written -1.
KeyPos(pos, idx, dbg) == [pos |-> pos, idx |-> idx, dbg |-> dbg]

\* The first j in 0..n-1 with prefix[j] # key[prefix_offset + j], or -1.
RECURSIVE prefix_diff(_, _, _, _)
prefix_diff(prefix, key_hash, prefix_offset, j) ==
    IF j >= Len(prefix) \/ prefix_offset + j >= KeyWords THEN -1
    ELSE IF prefix[j + 1] # key_hash[prefix_offset + j + 1] THEN prefix_offset + j
    ELSE prefix_diff(prefix, key_hash, prefix_offset, j + 1)

\* Branch::key_position
key_position(branch, key_hash) ==
    LET word_idx == mask_word_idx(branch.mask)
        dbg == ~(word_idx < KeyWords) \/ ~(Len(branch.prefix) <= word_idx)
        prefix_offset == SatSub(word_idx, Len(branch.prefix) + 1)
        pd == prefix_diff(branch.prefix, key_hash, prefix_offset, 0)
        prior_word_idx == word_idx - 1
        prior_word == IF prior_word_idx >= 0 /\ prior_word_idx < KeyWords
                      THEN key_hash[prior_word_idx + 1] ELSE {}
    IN IF pd # -1 THEN KeyPos("PrefixVec", pd, dbg)
       ELSE IF branch.prior_word # prior_word THEN KeyPos("PriorWord", prior_word_idx, dbg)
       ELSE IF word_idx >= KeyWords THEN KeyPos("Panic", 0, dbg)
       ELSE IF is_left_descendant(branch.mask, key_hash[word_idx + 1]) THEN KeyPos("Left", 0, dbg)
       ELSE IF is_right_descendant(branch.mask, key_hash[word_idx + 1]) THEN KeyPos("Right", 0, dbg)
       ELSE KeyPos("PrefixOfWord", word_idx, dbg)

\* Mutant: the hash of a leaf leaves out the value.
hash_leaf_no_value(leaf) == <<leaf.key_hash>>

\* Leaf::hash_leaf: H(key_hash.to_bytes() || value)
hash_leaf(leaf) == <<leaf.key_hash, leaf.value>>

\* Branch::hash_branch:
\* H(left || right || bit_idx || left_prefix || prior_word || prefix...)
hash_branch(branch, left, right) ==
    <<left, right, branch.mask.bit_idx, branch.mask.left_prefix, branch.prior_word>>
        \o branch.prefix

\* Mutant: the modified copy of a stored branch loses the prefix.
from_stored_no_prefix(branch) ==
    [t |-> "B", left |-> [t |-> "S", idx |-> branch.left],
     right |-> [t |-> "S", idx |-> branch.right], mask |-> branch.mask,
     prior_word |-> branch.prior_word, prefix |-> <<>>]

\* Branch::from_stored
from_stored(branch) ==
    MkBranch(Stored(branch.left), Stored(branch.right), branch.mask,
             branch.prior_word, branch.prefix)

\* Result of a structural edit: the new subtree, or a panic.
Edit(node, panic, dbg) == [node |-> node, panic |-> panic, dbg |-> dbg]

\* key_hash.0.get(idx).unwrap_or(&0), with usize::MAX written -1
word_or_zero(key_hash, idx) ==
    IF idx >= 0 /\ idx < KeyWords THEN key_hash[idx + 1] ELSE {}

\* The debug assertion of the PrefixVec case: the reversed key prefix zipped
\* with the reversed branch prefix has no differing pair.
delta_in_prefix(key_hash, word_idx, prefix) ==
    LET n == SatSub(word_idx, 1)
        m == IF n < Len(prefix) THEN n ELSE Len(prefix)
    IN \E j \in 0..(m - 1) : key_hash[n - j] # prefix[Len(prefix) - j]

\* The (mask, prior_word, prefix, leaf_word) tuple of new_adjacent_leaf_ret
\* and the prefix left in the old branch.
adjacent_parts(branch, kpos, key_hash) ==
    LET word_idx == kpos.idx
        bw == mask_word_idx(branch.mask)
    IN CASE kpos.pos = "PrefixOfWord" ->
              LET leaf_word == key_hash[word_idx + 1]
              IN [panic |-> FALSE,
                  dbg |-> bw # word_idx
                          \/ branch.prior_word # word_or_zero(key_hash, word_idx - 1)
                          \/ BitAnd(BitXor(branch.mask.left_prefix, leaf_word),
                                    prefix_mask(branch.mask)) = {},
                  mask |-> new_with_mask(word_idx, branch.mask.left_prefix, leaf_word,
                                         prefix_mask(branch.mask)),
                  prior_word |-> branch.prior_word,
                  prefix |-> branch.prefix,
                  leaf_word |-> leaf_word,
                  old_prefix |-> <<>>]
         [] kpos.pos = "PriorWord" ->
              IF word_idx < 0 \/ word_idx >= KeyWords
              THEN [panic |-> TRUE, dbg |-> TRUE, mask |-> branch.mask,
                    prior_word |-> {}, prefix |-> <<>>, leaf_word |-> {},
                    old_prefix |-> <<>>]
              ELSE LET leaf_word == key_hash[word_idx + 1]
                   IN [panic |-> FALSE,
                       dbg |-> word_idx # bw - 1 \/ branch.prior_word = leaf_word,
                       mask |-> BranchMaskNew(word_idx, branch.prior_word, leaf_word),
                       prior_word |-> word_or_zero(key_hash, word_idx - 1),
                       prefix |-> branch.prefix,
                       leaf_word |-> leaf_word,
                       old_prefix |-> <<>>]
         [] OTHER ->
              LET len == Len(branch.prefix)
                  prefix_offset == SatSub(word_idx, len + 1)
              IN IF word_idx + 1 - prefix_offset > len
                 THEN [panic |-> TRUE, dbg |-> TRUE, mask |-> branch.mask,
                       prior_word |-> {}, prefix |-> <<>>, leaf_word |-> {},
                       old_prefix |-> <<>>]
                 ELSE LET branch_word == branch.prefix[word_idx - prefix_offset + 1]
                          leaf_word == key_hash[word_idx + 1]
                      IN [panic |-> FALSE,
                          dbg |-> ~(bw - word_idx >= 2) \/ len = 0
                                  \/ delta_in_prefix(key_hash, word_idx, branch.prefix)
                                  \/ branch_word = leaf_word,
                          mask |-> BranchMaskNew(word_idx, branch_word, leaf_word),
                          prior_word |-> word_or_zero(key_hash, word_idx - 1),
                          prefix |-> Slice(key_hash, prefix_offset, SatSub(word_idx, 1)),
                          leaf_word |-> leaf_word,
                          old_prefix |-> Slice(branch.prefix, word_idx + 1 - prefix_offset, len)]

\* Mutant: the new parent gets the new leaf and keeps the placeholder where
\* the old branch belongs.
new_adjacent_leaf_ret_leaf_only(branch, kpos, leaf) ==
    LET parent(p) ==
            IF p.panic THEN Edit(branch, TRUE, TRUE)
            ELSE LET new_parent == MkBranch(temp_null_stored, temp_null_stored,
                                            p.mask, p.prior_word, p.prefix)
                 IN IF is_left_descendant(p.mask, p.leaf_word)
                    THEN Edit([new_parent EXCEPT !.left = leaf], FALSE, p.dbg)
                    ELSE Edit([new_parent EXCEPT !.right = leaf], FALSE, p.dbg)
    IN parent(adjacent_parts(branch, kpos, leaf.key_hash))

\* Branch::new_adjacent_leaf_ret: the new parent that takes the place of
\* branch, with the old branch and the new leaf as its children.
new_adjacent_leaf_ret(branch, kpos, leaf) ==
    LET parent(p) ==
            IF p.panic THEN Edit(branch, TRUE, TRUE)
            ELSE LET new_parent == MkBranch(temp_null_stored, temp_null_stored,
                                            p.mask, p.prior_word, p.prefix)
                     old_branch == [branch EXCEPT !.prefix = p.old_prefix]
                     isl == is_left_descendant(p.mask, p.leaf_word)
                     isr == is_right_descendant(p.mask, p.leaf_word)
                 IN IF isl
                    THEN Edit([new_parent EXCEPT !.left = leaf, !.right = old_branch],
                              FALSE, p.dbg \/ isr)
                    ELSE Edit([new_parent EXCEPT !.left = old_branch, !.right = leaf],
                              FALSE, p.dbg \/ ~isr)
    IN parent(adjacent_parts(branch, kpos, leaf.key_hash))

\* The first word index >= from where the two keys differ, or -1.
RECURSIVE first_diff(_, _, _)
first_diff(a, b, from) ==
    IF from >= KeyWords THEN -1
    ELSE IF a[from + 1] # b[from + 1] THEN from
    ELSE first_diff(a, b, from + 1)

\* Mutant: the branch above two leaves always gets prior_word 0 and an
\* empty prefix.
new_from_leafs_bare(prefix_start_idx, old_ref, old_key, new_leaf) ==
    LET word_idx == first_diff(new_leaf.key_hash, old_key, prefix_start_idx)
        branch(a, mask) ==
            IF is_left_descendant(mask, a)
            THEN Edit(MkBranch(new_leaf, old_ref, mask, {}, <<>>), FALSE, FALSE)
            ELSE Edit(MkBranch(old_ref, new_leaf, mask, {}, <<>>), FALSE, FALSE)
    IN IF word_idx = -1 THEN Edit(old_ref, TRUE, TRUE)
       ELSE branch(new_leaf.key_hash[word_idx + 1],
                   BranchMaskNew(word_idx, new_leaf.key_hash[word_idx + 1],
                                 old_key[word_idx + 1]))

\* Branch::new_from_leafs: old_ref is the NodeRef of the old leaf (a ModLeaf
\* or the Stored reference of a stored leaf), old_key its key.
new_from_leafs(prefix_start_idx, old_ref, old_key, new_leaf) ==
    LET word_idx == first_diff(new_leaf.key_hash, old_key, prefix_start_idx)
        branch(a, b, mask, prior_word_idx) ==
            LET prefix == Slice(new_leaf.key_hash, prefix_start_idx, prior_word_idx)
                prior_word == IF word_idx = 0 THEN {}
                              ELSE new_leaf.key_hash[prior_word_idx + 1]
                dbg == is_left_descendant(mask, a) = is_right_descendant(mask, a)
                       \/ is_left_descendant(mask, b) = is_right_descendant(mask, b)
                       \/ is_left_descendant(mask, a) = is_left_descendant(mask, b)
            IN IF prefix_start_idx > prior_word_idx THEN Edit(old_ref, TRUE, TRUE)
               ELSE IF is_left_descendant(mask, a)
               THEN Edit(MkBranch(new_leaf, old_ref, mask, prior_word, prefix), FALSE, dbg)
               ELSE Edit(MkBranch(old_ref, new_leaf, mask, prior_word, prefix), FALSE, dbg)
    IN IF word_idx = -1 THEN Edit(old_ref, TRUE, TRUE)
       ELSE branch(new_leaf.key_hash[word_idx + 1], old_key[word_idx + 1],
                   BranchMaskNew(word_idx, new_leaf.key_hash[word_idx + 1],
                                 old_key[word_idx + 1]),
                   SatSub(word_idx, 1))

(***************************************************************************)
(* MemoryDb (stored/memory_db.rs): a map from NodeHash to a node whose     *)
(* children are hashes.                                                    *)
(***************************************************************************)
EmptyDb == <<>>

DbHas(d, hash) == hash \in DOMAIN d

\* Mutant: set of a hash already present removes the entry.
DbSet_toggle(d, hash, node) ==
    IF hash \in DOMAIN d THEN [h \in (DOMAIN d) \ {hash} |-> d[h]]
    ELSE [h \in (DOMAIN d) \cup {hash} |-> IF h = hash THEN node ELSE d[h]]

\* MemoryDb::set: BTreeMap::insert, the new node replaces an old one.
DbSet(d, hash, node) ==
    [h \in (DOMAIN d) \cup {hash} |-> IF h = hash THEN node ELSE d[h]]

(***************************************************************************)
(* Stores (stored/merkle.rs)                                               *)
(*   SnapshotBuilder [kind |-> "builder", db, nodes]: nodes is the arena,  *)
(*       a sequence of [hash, node], node = NoneNode when not loaded.      *)
(*   Snapshot [kind |-> "snapshot", branches, leaves, unvisited_nodes]     *)
(***************************************************************************)
NoneNode == [t |-> "N"]

Builder(d, ns) == [kind |-> "builder", db |-> d, nodes |-> ns]

MkSnapshot(branches, leaves, unvisited_nodes) ==
    [kind |-> "snapshot", branches |-> branches, leaves |-> leaves,
     unvisited_nodes |-> unvisited_nodes]

\* SnapshotBuilder::empty(db).with_trie_root_hash(root_hash)
builder_with_trie_root_hash(root_hash) ==
    IF root_hash = EmptyHash THEN <<>>
    ELSE <<[hash |-> root_hash, node |-> NoneNode]>>

\* SnapshotBuilder::trie_root
builder_trie_root(ns) == IF Len(ns) > 0 THEN Stored(0) ELSE EmptyRoot

Got(ok, node, store) == [ok |-> ok, node |-> node, store |-> store]

\* Mutant: a leaf read from the database is returned but not kept in the arena.
builder_get_node_leaf_not_kept(store, hash_idx) ==
    LET ns == store.nodes
    IN IF hash_idx < 0 \/ hash_idx >= Len(ns) THEN Got(FALSE, NoneNode, store)
       ELSE LET e == ns[hash_idx + 1]
            IN IF e.node # NoneNode THEN Got(TRUE, e.node, store)
               ELSE IF ~DbHas(store.db, e.hash) THEN Got(FALSE, NoneNode, store)
               ELSE LET n == store.db[e.hash]
                    IN IF n.t = "B"
                       THEN LET idx == Len(ns)
                                node == [n EXCEPT !.left = idx, !.right = idx + 1]
                                pushed == ns \o <<[hash |-> n.left, node |-> NoneNode],
                                                  [hash |-> n.right, node |-> NoneNode]>>
                            IN Got(TRUE, node,
                                   [store EXCEPT !.nodes =
                                       [pushed EXCEPT ![hash_idx + 1].node = node]])
                       ELSE Got(TRUE, n, store)

\* Mutant: a branch read from the database gets its two child entries but is
\* not recorded at its own index.
builder_get_node_branch_not_kept(store, hash_idx) ==
    LET ns == store.nodes
    IN IF hash_idx < 0 \/ hash_idx >= Len(ns) THEN Got(FALSE, NoneNode, store)
       ELSE LET e == ns[hash_idx + 1]
            IN IF e.node # NoneNode THEN Got(TRUE, e.node, store)
               ELSE IF ~DbHas(store.db, e.hash) THEN Got(FALSE, NoneNode, store)
               ELSE LET n == store.db[e.hash]
                    IN IF n.t = "B"
                       THEN LET idx == Len(ns)
                                node == [n EXCEPT !.left = idx, !.right = idx + 1]
                                pushed == ns \o <<[hash |-> n.left, node |-> NoneNode],
                                                  [hash |-> n.right, node |-> NoneNode]>>
                            IN Got(TRUE, node, [store EXCEPT !.nodes = pushed])
                       ELSE Got(TRUE, n,
                                [store EXCEPT !.nodes[hash_idx + 1].node = n])

\* <SnapshotBuilder as Store>::get_node
builder_get_node(store, hash_idx) ==
    LET ns == store.nodes
    IN IF hash_idx < 0 \/ hash_idx >= Len(ns) THEN Got(FALSE, NoneNode, store)
       ELSE LET e == ns[hash_idx + 1]
            IN IF e.node # NoneNode THEN Got(TRUE, e.node, store)
               ELSE IF ~DbHas(store.db, e.hash) THEN Got(FALSE, NoneNode, store)
               ELSE LET n == store.db[e.hash]
                    IN IF n.t = "B"
                       THEN LET idx == Len(ns)
                                node == [n EXCEPT !.left = idx, !.right = idx + 1]
                                pushed == ns \o <<[hash |-> n.left, node |-> NoneNode],
                                                  [hash |-> n.right, node |-> NoneNode]>>
                            IN Got(TRUE, node,
                                   [store EXCEPT !.nodes =
                                       [pushed EXCEPT ![hash_idx + 1].node = node]])
                       ELSE Got(TRUE, n,
                                [store EXCEPT !.nodes[hash_idx + 1].node = n])

\* Mutant: an index of the unvisited region is answered Ok, without a node.
snapshot_get_node_unvisited_ok(store, idx) ==
    LET leaf_offset == Len(store.branches)
        unvisited_offset == leaf_offset + Len(store.leaves)
    IN IF idx < leaf_offset THEN Got(TRUE, store.branches[idx + 1], store)
       ELSE IF idx < unvisited_offset
       THEN Got(TRUE, store.leaves[idx - leaf_offset + 1], store)
       ELSE IF idx < unvisited_offset + Len(store.unvisited_nodes)
       THEN Got(TRUE, NoneNode, store)
       ELSE Got(FALSE, NoneNode, store)

\* <Snapshot as Store>::get_node
snapshot_get_node(store, idx) ==
    LET leaf_offset == Len(store.branches)
        unvisited_offset == leaf_offset + Len(store.leaves)
    IN IF idx < leaf_offset THEN Got(TRUE, store.branches[idx + 1], store)
       ELSE IF idx < unvisited_offset
       THEN Got(TRUE, store.leaves[idx - leaf_offset + 1], store)
       ELSE Got(FALSE, NoneNode, store)

get_node(store, idx) ==
    IF store.kind = "builder" THEN builder_get_node(store, idx)
    ELSE snapshot_get_node(store, idx)

Hashed(ok, hash) == [ok |-> ok, hash |-> hash]

\* Mutant: the hash of a leaf of the snapshot leaves out the key.
RECURSIVE snapshot_calc_subtree_hash_no_key(_, _)
snapshot_calc_subtree_hash_no_key(store, idx) ==
    LET leaf_offset == Len(store.branches)
        unvisited_offset == leaf_offset + Len(store.leaves)
    IN IF idx < leaf_offset
       THEN LET branch == store.branches[idx + 1]
                left == snapshot_calc_subtree_hash_no_key(store, branch.left)
            IN IF ~left.ok THEN left
               ELSE LET right == snapshot_calc_subtree_hash_no_key(store, branch.right)
                    IN IF ~right.ok THEN right
                       ELSE Hashed(TRUE, hash_branch(branch, left.hash, right.hash))
       ELSE IF idx < unvisited_offset
       THEN Hashed(TRUE, <<store.leaves[idx - leaf_offset + 1].value>>)
       ELSE IF idx < unvisited_offset + Len(store.unvisited_nodes)
       THEN Hashed(TRUE, store.unvisited_nodes[idx - unvisited_offset + 1])
       ELSE Hashed(FALSE, EmptyHash)

\* <Snapshot as Store>::calc_subtree_hash
RECURSIVE snapshot_calc_subtree_hash(_, _)
snapshot_calc_subtree_hash(store, idx) ==
    LET leaf_offset == Len(store.branches)
        unvisited_offset == leaf_offset + Len(store.leaves)
    IN IF idx < leaf_offset
       THEN LET branch == store.branches[idx + 1]
                left == snapshot_calc_subtree_hash(store, branch.left)
            IN IF ~left.ok THEN left
               ELSE LET right == snapshot_calc_subtree_hash(store, branch.right)
                    IN IF ~right.ok THEN right
                       ELSE Hashed(TRUE, hash_branch(branch, left.hash, right.hash))
       ELSE IF idx < unvisited_offset
       THEN Hashed(TRUE, hash_leaf(store.leaves[idx - leaf_offset + 1]))
       ELSE IF idx < unvisited_offset + Len(store.unvisited_nodes)
       THEN Hashed(TRUE, store.unvisited_nodes[idx - unvisited_offset + 1])
       ELSE Hashed(FALSE, EmptyHash)

\* Mutant: the hash of an arena entry is handed out only when the database
\* holds its node, as if the entry were fetched to be hashed.
builder_calc_subtree_hash_fetches(store, hash_idx) ==
    IF hash_idx >= 0 /\ hash_idx < Len(store.nodes)
       /\ DbHas(store.db, store.nodes[hash_idx + 1].hash)
    THEN Hashed(TRUE, store.nodes[hash_idx + 1].hash)
    ELSE Hashed(FALSE, EmptyHash)

\* <SnapshotBuilder as Store>::calc_subtree_hash
builder_calc_subtree_hash(store, hash_idx) ==
    IF hash_idx >= 0 /\ hash_idx < Len(store.nodes)
    THEN Hashed(TRUE, store.nodes[hash_idx + 1].hash)
    ELSE Hashed(FALSE, EmptyHash)

calc_subtree_hash(store, idx) ==
    IF store.kind = "builder" THEN builder_calc_subtree_hash(store, idx)
    ELSE snapshot_calc_subtree_hash(store, idx)

\* Mutant: the root of a snapshot with branches is taken to be the first branch.
root_node_idx_first(snapshot) ==
    LET b == Len(snapshot.branches)
        l == Len(snapshot.leaves)
        u == Len(snapshot.unvisited_nodes)
    IN IF b = 0 /\ l = 0 /\ u = 0 THEN [ok |-> TRUE, root |-> -1]
       ELSE IF b # 0 \/ l + u = 1 THEN [ok |-> TRUE, root |-> 0]
       ELSE [ok |-> FALSE, root |-> -1]

\* Mutant: a snapshot without branches is accepted whatever it holds.
root_node_idx_lenient(snapshot) ==
    LET b == Len(snapshot.branches)
        l == Len(snapshot.leaves)
        u == Len(snapshot.unvisited_nodes)
    IN IF b = 0 /\ l = 0 /\ u = 0 THEN [ok |-> TRUE, root |-> -1]
       ELSE IF b # 0 THEN [ok |-> TRUE, root |-> b - 1]
       ELSE [ok |-> TRUE, root |-> 0]

\* Snapshot::root_node_idx: [ok, root] with root = -1 for TrieRoot::Empty
root_node_idx(snapshot) ==
    LET b == Len(snapshot.branches)
        l == Len(snapshot.leaves)
        u == Len(snapshot.unvisited_nodes)
    IN IF b = 0 /\ l = 0 /\ u = 0 THEN [ok |-> TRUE, root |-> -1]
       ELSE IF (b = 1 /\ l = 0 /\ u = 0) \/ (b = 0 /\ l = 1 /\ u = 0)
               \/ (b = 0 /\ l = 0 /\ u = 1)
       THEN [ok |-> TRUE, root |-> 0]
       ELSE IF b # 0 THEN [ok |-> TRUE, root |-> b - 1]
       ELSE [ok |-> FALSE, root |-> -1]

\* Snapshot::trie_root
snapshot_trie_root(snapshot) ==
    LET r == root_node_idx(snapshot)
    IN [ok |-> r.ok, root |-> IF r.ok /\ r.root >= 0 THEN Stored(r.root) ELSE EmptyRoot]

\* Snapshot::calc_root_hash
snapshot_calc_root_hash(snapshot) ==
    LET r == root_node_idx(snapshot)
    IN IF ~r.ok THEN Hashed(FALSE, EmptyHash)
       ELSE IF r.root < 0 THEN Hashed(TRUE, EmptyHash)
       ELSE snapshot_calc_subtree_hash(snapshot, r.root)

\* SnapshotBuilderFold: st = [branch_count, leaf_count, branches, leaves,
\* unvisited_nodes], the result adds idx, the index given to the node.
CountNodes(ns, tag) == Cardinality({i \in 1..Len(ns) : ns[i].node.t = tag})

\* Mutant: the folded branch takes its children in the wrong order.
RECURSIVE fold_swapped(_, _, _)
fold_swapped(ns, node_idx, st) ==
    LET e == ns[node_idx + 1]
    IN IF e.node.t = "B"
       THEN LET l == fold_swapped(ns, e.node.left, st)
                r == fold_swapped(ns, e.node.right, l)
            IN [r EXCEPT !.branches = Append(r.branches,
                                [e.node EXCEPT !.left = r.idx, !.right = l.idx]),
                         !.idx = Len(r.branches)]
       ELSE IF e.node.t = "L"
       THEN [st EXCEPT !.leaves = Append(st.leaves, e.node),
                       !.idx = st.branch_count + Len(st.leaves)]
       ELSE [st EXCEPT !.unvisited_nodes = Append(st.unvisited_nodes, e.hash),
                       !.idx = st.branch_count + st.leaf_count + Len(st.unvisited_nodes)]

\* Mutant: a branch is pushed before its children are folded.
RECURSIVE fold_parent_first(_, _, _)
fold_parent_first(ns, node_idx, st) ==
    LET e == ns[node_idx + 1]
    IN IF e.node.t = "B"
       THEN LET me == Len(st.branches)
                l == fold_parent_first(ns, e.node.left,
                                       [st EXCEPT !.branches = Append(st.branches, e.node)])
                r == fold_parent_first(ns, e.node.right, l)
            IN [r EXCEPT !.branches[me + 1] = [e.node EXCEPT !.left = l.idx, !.right = r.idx],
                         !.idx = me]
       ELSE IF e.node.t = "L"
       THEN [st EXCEPT !.leaves = Append(st.leaves, e.node),
                       !.idx = st.branch_count + Len(st.leaves)]
       ELSE [st EXCEPT !.unvisited_nodes = Append(st.unvisited_nodes, e.hash),
                       !.idx = st.branch_count + st.leaf_count + Len(st.unvisited_nodes)]

RECURSIVE fold(_, _, _)
fold(ns, node_idx, st) ==
    LET e == ns[node_idx + 1]
    IN IF e.node.t = "B"
       THEN LET l == fold(ns, e.node.left, st)
                r == fold(ns, e.node.right, l)
            IN [r EXCEPT !.branches = Append(r.branches,
                                [e.node EXCEPT !.left = l.idx, !.right = r.idx]),
                         !.idx = Len(r.branches)]
       ELSE IF e.node.t = "L"
       THEN [st EXCEPT !.leaves = Append(st.leaves, e.node),
                       !.idx = st.branch_count + Len(st.leaves)]
       ELSE [st EXCEPT !.unvisited_nodes = Append(st.unvisited_nodes, e.hash),
                       !.idx = st.branch_count + st.leaf_count + Len(st.unvisited_nodes)]

\* SnapshotBuilder::build_initial_snapshot
build_initial_snapshot(ns) ==
    IF Len(ns) = 0 THEN MkSnapshot(<<>>, <<>>, <<>>)
    ELSE LET st == fold(ns, 0, [branch_count |-> CountNodes(ns, "B"),
                                leaf_count |-> CountNodes(ns, "L"),
                                branches |-> <<>>, leaves |-> <<>>,
                                unvisited_nodes |-> <<>>, idx |-> 0])
         IN MkSnapshot(st.branches, st.leaves, st.unvisited_nodes)

\* The fold state after `state.fold(0)` of build_initial_snapshot, for an
\* arena that is not empty; idx is root_idx.
initial_fold(ns) ==
    fold(ns, 0, [branch_count |-> CountNodes(ns, "B"),
                 leaf_count |-> CountNodes(ns, "L"),
                 branches |-> <<>>, leaves |-> <<>>,
                 unvisited_nodes |-> <<>>, idx |-> 0])

(***************************************************************************)
(* Transaction (transaction.rs).  The operators thread the store through   *)
(* the descent, because SnapshotBuilder::get_node loads nodes into the     *)
(* arena behind a shared reference.                                        *)
(***************************************************************************)
\* Result of a read: ok = FALSE is Err(TrieError), res is the Option<V>.
Read(ok, panic, dbg, res, store) ==
    [ok |-> ok, panic |-> panic, dbg |-> dbg, res |-> res, store |-> store]

\* Transaction::get_stored_node
RECURSIVE get_stored_node(_, _, _)
get_stored_node(store, stored_idx, key_hash) ==
    LET at_branch(g, kp) ==
            IF kp.pos = "Panic" THEN Read(TRUE, TRUE, TRUE, 0, g.store)
            ELSE IF kp.pos \in {"Left", "Right"}
            THEN LET r == get_stored_node(g.store,
                              IF kp.pos = "Left" THEN g.node.left ELSE g.node.right,
                              key_hash)
                 IN [r EXCEPT !.dbg = r.dbg \/ kp.dbg]
            ELSE Read(TRUE, FALSE, kp.dbg, 0, g.store)
        at_node(g) ==
            IF ~g.ok THEN Read(FALSE, FALSE, FALSE, 0, g.store)
            ELSE IF g.node.t = "B" THEN at_branch(g, key_position(g.node, key_hash))
            ELSE IF g.node.key_hash = key_hash
            THEN Read(TRUE, FALSE, FALSE, g.node.value, g.store)
            ELSE Read(TRUE, FALSE, FALSE, 0, g.store)
    IN at_node(get_node(store, stored_idx))

\* Transaction::get_node
RECURSIVE txn_get_node(_, _, _)
txn_get_node(store, node_ref, key_hash) ==
    LET at_branch(kp) ==
            IF kp.pos = "Panic" THEN Read(TRUE, TRUE, TRUE, 0, store)
            ELSE IF kp.pos \in {"Left", "Right"}
            THEN LET r == txn_get_node(store,
                              IF kp.pos = "Left" THEN node_ref.left ELSE node_ref.right,
                              key_hash)
                 IN [r EXCEPT !.dbg = r.dbg \/ kp.dbg]
            ELSE Read(TRUE, FALSE, kp.dbg, 0, store)
    IN IF node_ref.t = "B" THEN at_branch(key_position(node_ref, key_hash))
       ELSE IF node_ref.t = "L"
       THEN Read(TRUE, FALSE, FALSE,
                 IF node_ref.key_hash = key_hash THEN node_ref.value ELSE 0, store)
       ELSE get_stored_node(store, node_ref.idx, key_hash)

\* Transaction::get
txn_get(store, current_root, key_hash) ==
    IF current_root = EmptyRoot THEN Read(TRUE, FALSE, FALSE, 0, store)
    ELSE txn_get_node(store, current_root, key_hash)

\* The store indices Transaction::get hands to Store::get_node on its descent
\* (get_stored_node, then get_node and get).
RECURSIVE get_stored_path(_, _, _)
get_stored_path(store, stored_idx, key_hash) ==
    LET at_branch(g, kp) ==
            IF kp.pos \in {"Left", "Right"}
            THEN get_stored_path(g.store,
                                 IF kp.pos = "Left" THEN g.node.left ELSE g.node.right,
                                 key_hash)
            ELSE {}
        at_node(g) ==
            IF ~g.ok THEN {}
            ELSE IF g.node.t = "B"
            THEN {stored_idx} \cup at_branch(g, key_position(g.node, key_hash))
            ELSE {stored_idx}
    IN at_node(get_node(store, stored_idx))

RECURSIVE get_node_path(_, _, _)
get_node_path(store, node_ref, key_hash) ==
    LET at_branch(kp) ==
            IF kp.pos \in {"Left", "Right"}
            THEN get_node_path(store,
                               IF kp.pos = "Left" THEN node_ref.left ELSE node_ref.right,
                               key_hash)
            ELSE {}
    IN IF node_ref.t = "B" THEN at_branch(key_position(node_ref, key_hash))
       ELSE IF node_ref.t = "L" THEN {}
       ELSE get_stored_path(store, node_ref.idx, key_hash)

get_path(store, current_root, key_hash) ==
    IF current_root = EmptyRoot THEN {}
    ELSE get_node_path(store, current_root, key_hash)

\* Result of a write: node is the subtree (or root) after the call, also
\* when the call returns Err; old and new are the values before and after.
Wrote(ok, panic, dbg, node, store, old, new) ==
    [ok |-> ok, panic |-> panic, dbg |-> dbg, node |-> node, store |-> store,
     old |-> old, new |-> new]

\* A write that made the subtree e; dbg: an assertion failed on the way to it.
WroteEdit(e, dbg, store, old, new) ==
    Wrote(TRUE, e.panic, e.dbg \/ dbg, e.node, store, old, new)

\* Transaction::insert_node
RECURSIVE insert_node(_, _, _, _)
insert_node(store, node_ref, key_hash, value) ==
    LET at_branch(kp) ==
            IF kp.pos = "Panic" THEN Wrote(TRUE, TRUE, TRUE, node_ref, store, 0, 0)
            ELSE IF kp.pos = "Left"
            THEN LET r == insert_node(store, node_ref.left, key_hash, value)
                 IN [r EXCEPT !.node = [node_ref EXCEPT !.left = r.node],
                              !.dbg = r.dbg \/ kp.dbg]
            ELSE IF kp.pos = "Right"
            THEN LET r == insert_node(store, node_ref.right, key_hash, value)
                 IN [r EXCEPT !.node = [node_ref EXCEPT !.right = r.node],
                              !.dbg = r.dbg \/ kp.dbg]
            ELSE WroteEdit(new_adjacent_leaf_ret(node_ref, kp, ModLeaf(key_hash, value)),
                           kp.dbg, store, 0, value)
        at_stored(g) ==
            IF ~g.ok THEN Wrote(FALSE, FALSE, FALSE, node_ref, g.store, 0, 0)
            ELSE IF g.node.t = "B"
            THEN insert_node(g.store, from_stored(g.node), key_hash, value)
            ELSE IF g.node.key_hash = key_hash
            THEN Wrote(TRUE, FALSE, FALSE, ModLeaf(key_hash, value), g.store,
                       g.node.value, value)
            ELSE WroteEdit(new_from_leafs(0, node_ref, g.node.key_hash,
                                          ModLeaf(key_hash, value)),
                           FALSE, g.store, 0, value)
    IN IF node_ref.t = "B" THEN at_branch(key_position(node_ref, key_hash))
       ELSE IF node_ref.t = "L"
       THEN IF node_ref.key_hash = key_hash
            THEN Wrote(TRUE, FALSE, FALSE, [node_ref EXCEPT !.value = value], store,
                       node_ref.value, value)
            ELSE WroteEdit(new_from_leafs(0, node_ref, node_ref.key_hash,
                                          ModLeaf(key_hash, value)),
                           FALSE, store, 0, value)
       ELSE at_stored(get_node(store, node_ref.idx))

\* Transaction::insert
txn_insert(store, current_root, key_hash, value) ==
    IF current_root = EmptyRoot
    THEN Wrote(TRUE, FALSE, FALSE, ModLeaf(key_hash, value), store, 0, value)
    ELSE insert_node(store, current_root, key_hash, value)

\* Transaction::entry followed by the Entry methods the callers use:
\*   "get"        entry(k).get()
\*   "insert"     Occupied: o.insert(v); Vacant: v.insert(v)
\*   "and_modify" entry(k).and_modify(|x| *x = v).or_insert(v)
\*   "or_insert"  entry(k).and_modify(|_| ()).or_insert(v)
\* The descent of entry turns every stored node on the path into a modified
\* one before the method runs.
RECURSIVE entry_node(_, _, _, _, _)
entry_node(store, node_ref, key_hash, method, value) ==
    LET at_branch(kp) ==
            IF kp.pos = "Panic" THEN Wrote(TRUE, TRUE, TRUE, node_ref, store, 0, 0)
            ELSE IF kp.pos = "Left"
            THEN LET r == entry_node(store, node_ref.left, key_hash, method, value)
                 IN [r EXCEPT !.node = [node_ref EXCEPT !.left = r.node],
                              !.dbg = r.dbg \/ kp.dbg]
            ELSE IF kp.pos = "Right"
            THEN LET r == entry_node(store, node_ref.right, key_hash, method, value)
                 IN [r EXCEPT !.node = [node_ref EXCEPT !.right = r.node],
                              !.dbg = r.dbg \/ kp.dbg]
            ELSE \* Entry::Vacant, parent is a ModBranch
                 IF method = "get" THEN Wrote(TRUE, FALSE, kp.dbg, node_ref, store, 0, 0)
                 ELSE WroteEdit(new_adjacent_leaf_ret(node_ref, kp,
                                                      ModLeaf(key_hash, value)),
                                kp.dbg, store, 0, value)
        at_stored(g) ==
            IF ~g.ok THEN Wrote(FALSE, FALSE, FALSE, node_ref, g.store, 0, 0)
            ELSE IF g.node.t = "B"
            THEN entry_node(g.store, from_stored(g.node), key_hash, method, value)
            ELSE entry_node(g.store, ModLeaf(g.node.key_hash, g.node.value),
                            key_hash, method, value)
    IN IF node_ref.t = "B" THEN at_branch(key_position(node_ref, key_hash))
       ELSE IF node_ref.t = "L"
       THEN IF node_ref.key_hash = key_hash
            THEN \* Entry::Occupied
                 IF method \in {"insert", "and_modify"}
                 THEN Wrote(TRUE, FALSE, FALSE, [node_ref EXCEPT !.value = value], store,
                            node_ref.value, value)
                 ELSE Wrote(TRUE, FALSE, FALSE, node_ref, store,
                            node_ref.value, node_ref.value)
            ELSE \* Entry::Vacant, parent is a ModLeaf
                 IF method = "get" THEN Wrote(TRUE, FALSE, FALSE, node_ref, store, 0, 0)
                 ELSE WroteEdit(new_from_leafs(0, node_ref, node_ref.key_hash,
                                               ModLeaf(key_hash, value)),
                                FALSE, store, 0, value)
       ELSE at_stored(get_node(store, node_ref.idx))

\* Mutant: OccupiedEntry::insert keeps the value the leaf holds.
txn_entry_keep(store, current_root, key_hash, method, value) ==
    IF current_root = EmptyRoot
    THEN IF method = "get" THEN Wrote(TRUE, FALSE, FALSE, current_root, store, 0, 0)
         ELSE Wrote(TRUE, FALSE, FALSE, ModLeaf(key_hash, value), store, 0, value)
    ELSE entry_node(store, current_root, key_hash,
                    IF method = "insert" THEN "or_insert" ELSE method, value)

\* Transaction::entry on the root
txn_entry(store, current_root, key_hash, method, value) ==
    IF current_root = EmptyRoot
    THEN \* Entry::VacantEmptyTrie
         IF method = "get" THEN Wrote(TRUE, FALSE, FALSE, current_root, store, 0, 0)
         ELSE Wrote(TRUE, FALSE, FALSE, ModLeaf(key_hash, value), store, 0, value)
    ELSE entry_node(store, current_root, key_hash, method, value)

\* Transaction::calc_root_hash_node with the callbacks of commit: every
\* modified branch and leaf is written to the database in post-order.
\* write = FALSE gives the fold of calc_root_hash (callbacks do nothing).
Folded(ok, hash, d) == [ok |-> ok, hash |-> hash, db |-> d]

\* Mutant: the fold writes the modified nodes whatever callbacks it was given.
RECURSIVE calc_root_hash_node_writes(_, _, _, _)
calc_root_hash_node_writes(store, d, node_ref, write) ==
    IF node_ref.t = "B"
    THEN LET left == calc_root_hash_node_writes(store, d, node_ref.left, write)
         IN IF ~left.ok THEN left
            ELSE LET right == calc_root_hash_node_writes(store, left.db, node_ref.right, write)
                 IN IF ~right.ok THEN right
                    ELSE LET hash == hash_branch(node_ref, left.hash, right.hash)
                         IN Folded(TRUE, hash,
                                DbSet(right.db, hash,
                                      [node_ref EXCEPT !.left = left.hash,
                                                       !.right = right.hash]))
    ELSE IF node_ref.t = "L"
    THEN LET hash == hash_leaf(node_ref)
         IN Folded(TRUE, hash, DbSet(d, hash, node_ref))
    ELSE LET h == calc_subtree_hash(store, node_ref.idx)
         IN Folded(h.ok, h.hash, d)

RECURSIVE calc_root_hash_node(_, _, _, _)
calc_root_hash_node(store, d, node_ref, write) ==
    IF node_ref.t = "B"
    THEN LET left == calc_root_hash_node(store, d, node_ref.left, write)
         IN IF ~left.ok THEN left
            ELSE LET right == calc_root_hash_node(store, left.db, node_ref.right, write)
                 IN IF ~right.ok THEN right
                    ELSE LET hash == hash_branch(node_ref, left.hash, right.hash)
                         IN Folded(TRUE, hash,
                                IF write
                                THEN DbSet(right.db, hash,
                                           [node_ref EXCEPT !.left = left.hash,
                                                            !.right = right.hash])
                                ELSE right.db)
    ELSE IF node_ref.t = "L"
    THEN LET hash == hash_leaf(node_ref)
         IN Folded(TRUE, hash, IF write THEN DbSet(d, hash, node_ref) ELSE d)
    ELSE LET h == calc_subtree_hash(store, node_ref.idx)
         IN Folded(h.ok, h.hash, d)

\* Transaction::calc_root_hash_inner
calc_root_hash_inner(store, d, current_root, write) ==
    IF current_root = EmptyRoot THEN Folded(TRUE, EmptyHash, d)
    ELSE calc_root_hash_node(store, d, current_root, write)

\* Transaction::calc_root_hash
calc_root_hash(store, current_root) ==
    LET f == calc_root_hash_inner(store, EmptyDb, current_root, FALSE)
    IN Hashed(f.ok, f.hash)

\* Mutant: commit writes into a new database instead of the store's.
commit_new_db(store, current_root) ==
    calc_root_hash_inner(store, EmptyDb, current_root, TRUE)

\* Mutant: commit computes the root hash and writes nothing.
commit_no_write(store, current_root) ==
    calc_root_hash_inner(store, store.db, current_root, FALSE)

\* Transaction::commit: the root hash and the database after the writes
commit(store, current_root) ==
    calc_root_hash_inner(store, store.db, current_root, TRUE)

(***************************************************************************)
(* Inputs.  Keys are 8 words; the keys share leading words and first       *)
(* differ in word 0, in word 2, or inside word 3 at bit 0 or bit 1.        *)
(***************************************************************************)
Key(a, b, c, d) == <<W(a), W(b), W(c), W(d), W(0), W(0), W(0), W(0)>>

KA == Key(1, 2, 3, 0)
KB == Key(1, 2, 3, 2)
KC == Key(1, 2, 3, 1)
KD == Key(1, 2, 4, 0)
KE == Key(5, 2, 3, 0)

Keys == {KA, KB, KC, KD, KE}

Values == {1, 2}

\* The tries a database holds when a run starts: each is the result of
\* inserting the keys of the sequence, with value 1, into an empty trie and
\* committing it.
InitSeqs == {<<>>, <<KA>>, <<KA, KB>>, <<KA, KB, KC>>, <<KA, KC, KD>>}

\* operations of one run
MaxOps == 2

\* commits of one run
MaxCommits == 2

RECURSIVE InsertAll(_, _)
InsertAll(seq, current_root) ==
    IF seq = <<>> THEN current_root
    ELSE InsertAll(Tail(seq),
                   txn_insert(Builder(EmptyDb, <<>>), current_root, Head(seq), 1).node)

\* [ok, hash, db] of the committed initial trie
InitCommit(seq) == commit(Builder(EmptyDb, <<>>), InsertAll(seq, EmptyRoot))

InitMap(seq) == [k \in Keys |-> IF \E i \in 1..Len(seq) : seq[i] = k THEN 1 ELSE 0]

(***************************************************************************)
(* State                                                                   *)
(***************************************************************************)
VARIABLES
    db,         \* MemoryDb shared by the builders
    nodes,      \* arena of the SnapshotBuilder of the open transaction
    root,       \* Transaction::current_root of the open transaction
    old_root,   \* root hash the SnapshotBuilder was seeded with
    hmap,       \* the reference HashMap run side by side (tests/utils/operations.rs)
    tmap,       \* the values the open transaction wrote with insert (0: none)
    last,       \* the last step: [op, ok, agree], op is "read", "write", "Commit",
                \* "Reopen"; agree: it returned what the reference map returned
    nops,       \* operations applied so far
    ncommits,   \* commits so far
    commit_log, \* [hash, db] of the commits made in a row, without an operation between
    view,       \* after a re-open: get(k) of the committed transaction, for every k
    panicked,   \* an operation panicked: the run is over
    dbgf,       \* a debug build would have stopped at an assertion
    log,        \* the batch: operations applied by the open transaction
    phase,      \* "txn", "proved", "verify"
    snap,       \* the Snapshot handed to the verifier
    t2          \* a second transaction: [store, root, ...]

vars == <<db, nodes, root, old_root, hmap, tmap, last, nops, ncommits, commit_log, view,
          panicked, dbgf, log, phase, snap, t2>>

NoLast == [op |-> "none", ok |-> TRUE, agree |-> TRUE]

NoView == [k \in Keys |-> -1]

NoT2 == [store |-> MkSnapshot(<<>>, <<>>, <<>>), root |-> EmptyRoot]

\* A SnapshotBuilder seeded with the root of a committed trie and a
\* transaction opened on it (tests/utils/operations.rs,
\* run_against_snapshot_builder).
InitProver ==
    LET opened(seq, c) ==
            /\ db = c.db
            /\ nodes = builder_with_trie_root_hash(c.hash)
            /\ root = builder_trie_root(nodes)
            /\ old_root = c.hash
            /\ hmap = InitMap(seq)
            /\ tmap = [k \in Keys |-> 0]
            /\ last = NoLast
            /\ nops = 0
            /\ ncommits = 0
            /\ commit_log = <<>>
            /\ view = NoView
            /\ panicked = FALSE
            /\ dbgf = FALSE
            /\ log = <<>>
            /\ phase = "txn"
    IN \E seq \in InitSeqs : opened(seq, InitCommit(seq))

Init ==
    /\ InitProver
    /\ snap = MkSnapshot(<<>>, <<>>, <<>>)
    /\ t2 = NoT2

\* hashmap_op of tests/utils/operations.rs: the map after the operation
hashmap_op(m, op, k, v) ==
    IF op \in {"Get", "EntryGet"} THEN m
    ELSE IF op = "EntryOrInsert" /\ m[k] # 0 THEN m
    ELSE [m EXCEPT ![k] = v]

\* What the open transaction is known to have written: an unconditional write
\* of v to k sets it; or_insert keeps a value written before and is otherwise
\* not counted, because it writes only when the key is absent.
written_op(m, op, k, v) ==
    IF op \in {"Get", "EntryGet"} THEN m
    ELSE IF op = "EntryOrInsert" THEN m
    ELSE [m EXCEPT ![k] = v]

\* the (old, new) pair hashmap_op returns
hashmap_ret(m, op, k, v) ==
    IF op = "Insert" THEN <<0, v>> ELSE <<m[k], hashmap_op(m, op, k, v)[k]>>

\* trie_op of tests/utils/operations.rs
trie_op(store, current_root, op, k, v) ==
    LET got(r) == Wrote(r.ok, r.panic, r.dbg, current_root, r.store, r.res, r.res)
        inserted(r) == [r EXCEPT !.old = 0]
    IN CASE op = "Get" -> got(txn_get(store, current_root, k))
         [] op = "Insert" -> inserted(txn_insert(store, current_root, k, v))
         [] op = "EntryGet" -> txn_entry(store, current_root, k, "get", v)
         [] op = "EntryInsert" -> txn_entry(store, current_root, k, "insert", v)
         [] op = "EntryAndModifyOrInsert" ->
                txn_entry(store, current_root, k, "and_modify", v)
         [] OTHER -> txn_entry(store, current_root, k, "or_insert", v)

IsRead(op) == op \in {"Get", "EntryGet"}

\* The transaction is open and the batch has an operation left.
CanApply == phase = "txn" /\ ~panicked /\ nops < MaxOps

\* One operation of the batch on the prover's transaction; the caller says
\* what becomes of log and t2.
Apply(op, k, v) ==
    LET returned(r, done) ==
            /\ root' = r.node
            /\ nodes' = r.store.nodes
            /\ panicked' = r.panic
            /\ dbgf' = (dbgf \/ r.dbg)
            /\ hmap' = IF done THEN hashmap_op(hmap, op, k, v) ELSE hmap
            /\ tmap' = IF done THEN written_op(tmap, op, k, v) ELSE tmap
            /\ last' = [op |-> IF IsRead(op) THEN "read" ELSE "write", ok |-> r.ok,
                        agree |-> <<r.old, r.new>> = hashmap_ret(hmap, op, k, v)]
        call(r) == returned(r, r.ok /\ ~r.panic)
    IN /\ call(trie_op(Builder(db, nodes), root, op, k, v))
       /\ nops' = nops + 1
       /\ commit_log' = <<>>
       /\ view' = IF IsRead(op) THEN view ELSE NoView
       /\ UNCHANGED <<db, old_root, ncommits, phase, snap>>

Get == \E k \in Keys :
    CanApply /\ Apply("Get", k, 1) /\ UNCHANGED <<log, t2>>

Insert == \E k \in Keys, v \in Values :
    CanApply /\ Apply("Insert", k, v) /\ UNCHANGED <<log, t2>>

EntryGet == \E k \in Keys :
    CanApply /\ Apply("EntryGet", k, 1) /\ UNCHANGED <<log, t2>>

EntryInsert == \E k \in Keys, v \in Values :
    CanApply /\ Apply("EntryInsert", k, v) /\ UNCHANGED <<log, t2>>

EntryAndModifyOrInsert == \E k \in Keys, v \in Values :
    CanApply /\ Apply("EntryAndModifyOrInsert", k, v) /\ UNCHANGED <<log, t2>>

EntryOrInsert == \E k \in Keys, v \in Values :
    CanApply /\ Apply("EntryOrInsert", k, v) /\ UNCHANGED <<log, t2>>

\* txn.commit(hasher): the modified nodes are written to the database.
Commit ==
    LET committed(c) ==
            /\ db' = c.db
            /\ commit_log' = Append(commit_log, [hash |-> c.hash, db |-> c.db])
            /\ last' = [op |-> "Commit", ok |-> c.ok, agree |-> TRUE]
    IN /\ phase = "txn"
       /\ ~panicked
       /\ ncommits < MaxCommits
       /\ ncommits' = ncommits + 1
       /\ committed(commit(Builder(db, nodes), root))
       /\ UNCHANGED <<nodes, root, old_root, hmap, tmap, nops, view, panicked, dbgf,
                      log, phase, snap, t2>>

\* The transaction is dropped and a new one is opened on a fresh
\* SnapshotBuilder seeded with the root the last commit returned
\* (tests/build_store_entry_ops.rs).
Reopen ==
    /\ phase = "txn"
    /\ ~panicked
    /\ last.op = "Commit" /\ last.ok
    /\ LET ns == builder_with_trie_root_hash(commit_log[Len(commit_log)].hash)
       IN /\ nodes' = ns
          /\ root' = builder_trie_root(ns)
    /\ old_root' = commit_log[Len(commit_log)].hash
    /\ view' = [k \in Keys |-> txn_get(Builder(db, nodes), root, k).res]
    /\ tmap' = [k \in Keys |-> 0]
    /\ commit_log' = <<>>
    /\ last' = [op |-> "Reopen", ok |-> TRUE, agree |-> TRUE]
    /\ UNCHANGED <<db, hmap, nops, ncommits, panicked, dbgf, log, phase, snap, t2>>

Next ==
    \/ Get
    \/ Insert
    \/ EntryGet
    \/ EntryInsert
    \/ EntryAndModifyOrInsert
    \/ EntryOrInsert
    \/ Commit
    \/ Reopen

Spec == Init /\ [][Next]_vars

(***************************************************************************)
(* Prover and verifier (tests/utils/operations.rs,                         *)
(* examples/prove-and-verify.rs).  The prover runs a batch on a            *)
(* SnapshotBuilder, commits and builds the snapshot; the verifier checks   *)
(* the snapshot against the old root, opens a transaction on it and        *)
(* replays the batch.  t2 is the verifier:                                 *)
(*   [store, root, pos, pre, ok, panic, dbg]                               *)
(*   pos: operations replayed; pre: the snapshot hashed to the old root    *)
(*   and from_snapshot returned Ok; ok: no replayed operation returned Err *)
(***************************************************************************)
\* The operations a batch is made of.
BatchOps ==
    [op : {"Get", "EntryGet"}, k : Keys, v : {1}]
        \cup [op : {"Insert"}, k : Keys, v : Values]
        \cup [op : {"EntryInsert", "EntryAndModifyOrInsert", "EntryOrInsert"},
              k : Keys, v : {2}]

\* One operation of the batch, recorded for the verifier.
BatchOp ==
    \E o \in BatchOps :
        CanApply /\ Apply(o.op, o.k, o.v) /\ log' = Append(log, o) /\ UNCHANGED t2

\* The end of run_against_snapshot_builder: commit, then build_initial_snapshot.
Prove ==
    LET proved(c) ==
            /\ db' = c.db
            /\ commit_log' = <<[hash |-> c.hash, db |-> c.db]>>
            /\ last' = [op |-> "Commit", ok |-> c.ok, agree |-> TRUE]
            /\ panicked' = ~c.ok
            /\ phase' = IF c.ok THEN "proved" ELSE phase
    IN /\ phase = "txn"
       /\ ~panicked
       /\ last.ok
       /\ proved(commit(Builder(db, nodes), root))
       /\ snap' = build_initial_snapshot(nodes)
       /\ UNCHANGED <<nodes, root, old_root, hmap, tmap, nops, ncommits, view, dbgf,
                      log, t2>>

\* The start of run_against_snapshot: the snapshot must hash to the old
\* root, then Transaction::from_snapshot.
Verify ==
    LET opened(tr) ==
            t2' = [store |-> snap,
                   root |-> tr.root,
                   pos |-> 0,
                   pre |-> tr.ok /\ snapshot_calc_root_hash(snap) = Hashed(TRUE, old_root),
                   ok |-> TRUE, panic |-> FALSE, dbg |-> FALSE]
    IN /\ phase = "proved"
       /\ opened(snapshot_trie_root(snap))
       /\ phase' = "verify"
       /\ UNCHANGED <<db, nodes, root, old_root, hmap, tmap, last, nops, ncommits,
                      commit_log, view, panicked, dbgf, log, snap>>

\* trie_op of the next operation of the batch on the verifier's transaction.
Replay ==
    LET replayed(r) ==
            t2' = [t2 EXCEPT !.store = r.store, !.root = r.node, !.pos = t2.pos + 1,
                             !.ok = r.ok, !.panic = r.panic, !.dbg = t2.dbg \/ r.dbg]
        step(o) == replayed(trie_op(t2.store, t2.root, o.op, o.k, o.v))
    IN /\ phase = "verify"
       /\ t2.pre /\ t2.ok /\ ~t2.panic
       /\ t2.pos < Len(log)
       /\ step(log[t2.pos + 1])
       /\ UNCHANGED <<db, nodes, root, old_root, hmap, tmap, last, nops, ncommits,
                      commit_log, view, panicked, dbgf, log, phase, snap>>

NextPV ==
    \/ BatchOp
    \/ Prove
    \/ Verify
    \/ Replay

SpecPV == Init /\ [][NextPV]_vars

(***************************************************************************)
(* A transaction over a snapshot that does not hold every node it is asked *)
(* for: the prover only read some keys before the snapshot was built, and  *)
(* the transaction opened on it then writes to any key.  t2 is that        *)
(* transaction, run side by side with its twin, the same transaction with  *)
(* the calls that returned Err left out:                                   *)
(*   [store, root, twin, pos, nfail, panic, apart]                         *)
(*   nfail: calls that returned Err; apart: a call returned Ok in the      *)
(*   transaction and not in the twin                                       *)
(***************************************************************************)
\* The snapshot of what the prover read so far and a transaction on it.
OpenPartial ==
    LET opened(tr) ==
            /\ tr.ok
            /\ t2' = [store |-> snap', root |-> tr.root, twin |-> tr.root,
                      pos |-> 0, nfail |-> 0, panic |-> FALSE, apart |-> FALSE]
    IN /\ phase = "txn"
       /\ snap' = build_initial_snapshot(nodes)
       /\ opened(snapshot_trie_root(snap'))
       /\ phase' = "verify"
       /\ UNCHANGED <<db, nodes, root, old_root, hmap, tmap, last, nops, ncommits,
                      commit_log, view, panicked, dbgf, log>>

\* A call on the transaction over the partial snapshot.  When it returns
\* Err the twin does not make the call.
Attempt(op, k, v) ==
    LET returned(r, tw) ==
            t2' = [t2 EXCEPT !.root = r.node,
                             !.twin = IF r.ok THEN tw.node ELSE t2.twin,
                             !.pos = t2.pos + 1,
                             !.nfail = IF r.ok THEN t2.nfail ELSE t2.nfail + 1,
                             !.panic = r.panic,
                             !.apart = t2.apart
                                       \/ (r.ok /\ ~r.panic /\ (tw.panic \/ ~tw.ok))]
    IN /\ returned(trie_op(t2.store, t2.root, op, k, v),
                   trie_op(t2.store, t2.twin, op, k, v))
       /\ UNCHANGED <<db, nodes, root, old_root, hmap, tmap, last, nops, ncommits,
                      commit_log, view, panicked, dbgf, log, phase, snap>>

CanAttempt == phase = "verify" /\ ~t2.panic /\ t2.pos < MaxOps

\* txn.insert(k, v)
AttemptInsert ==
    \E k \in Keys, v \in Values : CanAttempt /\ Attempt("Insert", k, v)

\* txn.entry(k) followed by get, insert, and_modify or or_insert
AttemptEntry ==
    \E k \in Keys, op \in {"EntryGet", "EntryInsert", "EntryAndModifyOrInsert",
                           "EntryOrInsert"} :
        CanAttempt /\ Attempt(op, k, 2)

NextErr ==
    \/ Get
    \/ OpenPartial
    \/ AttemptInsert
    \/ AttemptEntry

SpecErr == Init /\ [][NextErr]_vars

\* What a caller sees of get(k): Ok or Err, and the value.
Seen(r) == <<r.ok, r.panic, r.res>>

(***************************************************************************)
(* The direct calls and the entry calls side by side, on a SnapshotBuilder *)
(* and on a Snapshot (tests/utils/operations.rs, trie_op and hashmap_op).  *)
(* t2 holds four transactions [store, root] over the same trie:            *)
(*   bd, be: direct and entry calls over a SnapshotBuilder each            *)
(*   sd, se: direct and entry calls over the Snapshot of a prover that     *)
(*           read every key                                                *)
(* and agree: every call so far returned the same in the direct and in the *)
(* entry form; pos: calls made; panic: a call panicked.                    *)
(***************************************************************************)
Txn(store, current_root) == [store |-> store, root |-> current_root]

KeySeq == <<KA, KB, KC, KD, KE>>

\* The arena after get of the keys i.. of KeySeq.
RECURSIVE ReadAll(_, _, _)
ReadAll(store, current_root, i) ==
    IF i > Len(KeySeq) THEN store
    ELSE ReadAll(txn_get(store, current_root, KeySeq[i]).store, current_root, i + 1)

\* Transaction::from_snapshot
from_snapshot(snapshot) == Txn(snapshot, snapshot_trie_root(snapshot).root)

\* Transaction::from_snapshot_builder
from_snapshot_builder(builder) == Txn(builder, builder_trie_root(builder.nodes))

InitEq ==
    LET full(b) == from_snapshot(build_initial_snapshot(
                       ReadAll(b.store, b.root, 1).nodes))
        both(b) ==
            t2 = [bd |-> b, be |-> b, sd |-> full(b), se |-> full(b),
                  agree |-> TRUE, pos |-> 0, panic |-> FALSE]
    IN /\ InitProver
       /\ snap = MkSnapshot(<<>>, <<>>, <<>>)
       /\ both(from_snapshot_builder(Builder(db, nodes)))

\* get(k) followed, when it returned None, by insert(k, v): the direct form
\* of entry(k).or_insert(v).
insert_if_absent(store, current_root, k, v) ==
    LET absent(g) ==
            IF g.ok /\ ~g.panic /\ g.res = 0
            THEN LET put(w) == [w EXCEPT !.dbg = w.dbg \/ g.dbg]
                 IN put(txn_insert(g.store, current_root, k, v))
            ELSE Wrote(g.ok, g.panic, g.dbg, current_root, g.store, g.res, g.res)
    IN absent(txn_get(store, current_root, k))

\* The direct form of an operation.
direct_op(txn, op, k, v) ==
    IF op = "EntryGet" THEN trie_op(txn.store, txn.root, "Get", k, v)
    ELSE IF op = "EntryOrInsert" THEN insert_if_absent(txn.store, txn.root, k, v)
    ELSE trie_op(txn.store, txn.root, "Insert", k, v)

\* What the caller gets back: the value read by a get, the value in the trie
\* after a write.
Returned(r) == <<r.ok, r.panic, r.new>>

\* One operation, made in the direct form on bd and sd and in the entry form
\* op on be and se.
Both(op, k, v) ==
    LET made(bd, be, sd, se) ==
            t2' = [bd |-> Txn(bd.store, bd.node), be |-> Txn(be.store, be.node),
                   sd |-> Txn(sd.store, sd.node), se |-> Txn(se.store, se.node),
                   agree |-> t2.agree /\ Returned(bd) = Returned(be)
                                      /\ Returned(sd) = Returned(se),
                   pos |-> t2.pos + 1,
                   panic |-> bd.panic \/ be.panic \/ sd.panic \/ se.panic]
    IN /\ made(direct_op(t2.bd, op, k, v),
               trie_op(t2.be.store, t2.be.root, op, k, v),
               direct_op(t2.sd, op, k, v),
               trie_op(t2.se.store, t2.se.root, op, k, v))
       /\ UNCHANGED <<db, nodes, root, old_root, hmap, tmap, last, nops, ncommits,
                      commit_log, view, panicked, dbgf, log, phase, snap>>

CanBoth == ~t2.panic /\ t2.pos < MaxOps

\* get(k) and entry(k).get()
BothGet == \E k \in Keys : CanBoth /\ Both("EntryGet", k, 1)

\* insert(k, v) and entry(k).insert(v)
BothInsert == \E k \in Keys, v \in Values : CanBoth /\ Both("EntryInsert", k, v)

\* insert(k, v) and entry(k).and_modify(|x| *x = v).or_insert(v)
BothAndModify ==
    \E k \in Keys, v \in Values : CanBoth /\ Both("EntryAndModifyOrInsert", k, v)

\* get(k), then insert(k, v) when absent, and entry(k).or_insert(v)
BothOrInsert == \E k \in Keys, v \in Values : CanBoth /\ Both("EntryOrInsert", k, v)

NextEq ==
    \/ BothGet
    \/ BothInsert
    \/ BothAndModify
    \/ BothOrInsert

SpecEq == InitEq /\ [][NextEq]_vars

\* calc_root_hash of a transaction
RootHash(txn) == calc_root_hash(txn.store, txn.root)

(***************************************************************************)
(* Two executions of the same operations from the same root.  The first is *)
(* the open transaction (db, nodes, root), which also calls calc_root_hash,*)
(* commit and build_initial_snapshot between the operations; the second,   *)
(* t2 = [store, root], runs over its own SnapshotBuilder and its own copy  *)
(* of the database and makes no such call.                                 *)
(***************************************************************************)
InitDet ==
    /\ InitProver
    /\ snap = MkSnapshot(<<>>, <<>>, <<>>)
    /\ t2 = from_snapshot_builder(Builder(db, nodes))

\* The operations of the two executions: a read, the direct write and an
\* entry write that depends on what the trie holds.
DetOps ==
    [op : {"Get"}, k : Keys, v : {1}]
        \cup [op : {"Insert", "EntryOrInsert"}, k : Keys, v : {2}]

\* The same operation in both executions.
OpInBoth ==
    LET second(r) == t2' = Txn(r.store, r.node)
    IN \E o \in DetOps :
           /\ CanApply
           /\ Apply(o.op, o.k, o.v)
           /\ second(trie_op(t2.store, t2.root, o.op, o.k, o.v))
           /\ UNCHANGED log

\* txn.calc_root_hash(hasher) in the first execution
CalcRootHash ==
    /\ phase = "txn"
    /\ ~panicked
    /\ last.op # "CalcRootHash"
    /\ last' = [op |-> "CalcRootHash",
                ok |-> calc_root_hash(Builder(db, nodes), root).ok, agree |-> TRUE]
    /\ UNCHANGED <<db, nodes, root, old_root, hmap, tmap, nops, ncommits, commit_log,
                   view, panicked, dbgf, log, phase, snap, t2>>

\* txn.build_initial_snapshot() in the first execution
BuildSnapshot ==
    /\ phase = "txn"
    /\ ~panicked
    /\ snap' = build_initial_snapshot(nodes)
    /\ UNCHANGED <<db, nodes, root, old_root, hmap, tmap, last, nops, ncommits,
                   commit_log, view, panicked, dbgf, log, phase, t2>>

NextDet ==
    \/ OpInBoth
    \/ CalcRootHash
    \/ Commit
    \/ BuildSnapshot

SpecDet == InitDet /\ [][NextDet]_vars

\* The transaction after the first n operations of the batch.
RECURSIVE ReplayLog(_, _)
ReplayLog(txn, n) ==
    LET after(before) ==
            LET made(r) == Txn(r.store, r.node)
            IN made(trie_op(before.store, before.root, log[n].op, log[n].k, log[n].v))
    IN IF n = 0 THEN txn ELSE after(ReplayLog(txn, n - 1))

\* get(k) of the open transaction
GetRes(k) == txn_get(Builder(db, nodes), root, k)

\* txn.build_initial_snapshot() of the open transaction
CurSnapshot == build_initial_snapshot(nodes)

(***************************************************************************)
(* The trie a transaction holds, as a tree: every Stored reference is      *)
(* followed through the store (and, for a SnapshotBuilder, through the     *)
(* database), so that two tries can be compared whatever part of them is   *)
(* in modified form.  A node the store cannot supply is [t |-> "H", hash]. *)
(***************************************************************************)
Unvisited(hash) == [t |-> "H", hash |-> hash]

\* The subtree the database holds under a hash.
RECURSIVE ExpandHash(_, _)
ExpandHash(d, hash) ==
    IF ~DbHas(d, hash) THEN Unvisited(hash)
    ELSE IF d[hash].t = "B"
    THEN MkBranch(ExpandHash(d, d[hash].left), ExpandHash(d, d[hash].right),
                  d[hash].mask, d[hash].prior_word, d[hash].prefix)
    ELSE ModLeaf(d[hash].key_hash, d[hash].value)

\* The subtree a SnapshotBuilder holds under an arena index.
RECURSIVE ExpandBuilder(_, _)
ExpandBuilder(store, hash_idx) ==
    LET at(e) ==
            IF e.node = NoneNode THEN ExpandHash(store.db, e.hash)
            ELSE IF e.node.t = "B"
            THEN MkBranch(ExpandBuilder(store, e.node.left),
                          ExpandBuilder(store, e.node.right),
                          e.node.mask, e.node.prior_word, e.node.prefix)
            ELSE ModLeaf(e.node.key_hash, e.node.value)
    IN at(store.nodes[hash_idx + 1])

\* The subtree a Snapshot holds under an index.
RECURSIVE ExpandSnapshot(_, _)
ExpandSnapshot(store, idx) ==
    LET leaf_offset == Len(store.branches)
        unvisited_offset == leaf_offset + Len(store.leaves)
        branch(b) == MkBranch(ExpandSnapshot(store, b.left), ExpandSnapshot(store, b.right),
                              b.mask, b.prior_word, b.prefix)
    IN IF idx < leaf_offset THEN branch(store.branches[idx + 1])
       ELSE IF idx < unvisited_offset
       THEN ModLeaf(store.leaves[idx - leaf_offset + 1].key_hash,
                    store.leaves[idx - leaf_offset + 1].value)
       ELSE Unvisited(store.unvisited_nodes[idx - unvisited_offset + 1])

\* The tree under a NodeRef (or TrieRoot) of a transaction over store.
RECURSIVE Expand(_, _)
Expand(store, node_ref) ==
    IF node_ref.t = "B"
    THEN MkBranch(Expand(store, node_ref.left), Expand(store, node_ref.right),
                  node_ref.mask, node_ref.prior_word, node_ref.prefix)
    ELSE IF node_ref.t = "S"
    THEN IF store.kind = "builder" THEN ExpandBuilder(store, node_ref.idx)
         ELSE ExpandSnapshot(store, node_ref.idx)
    ELSE node_ref

\* The leaves of a tree.
RECURSIVE LeavesOf(_)
LeavesOf(tree) ==
    IF tree.t = "B" THEN LeavesOf(tree.left) \cup LeavesOf(tree.right)
    ELSE IF tree.t = "L" THEN {tree}
    ELSE {}

\* The tree with the value of every leaf of key_hash replaced.
RECURSIVE SetValue(_, _, _)
SetValue(tree, key_hash, value) ==
    IF tree.t = "B"
    THEN [tree EXCEPT !.left = SetValue(tree.left, key_hash, value),
                      !.right = SetValue(tree.right, key_hash, value)]
    ELSE IF tree.t = "L" /\ tree.key_hash = key_hash THEN [tree EXCEPT !.value = value]
    ELSE tree

\* The root hash of a tree: hash_branch and hash_leaf bottom-up.
RECURSIVE HashTree(_)
HashTree(tree) ==
    IF tree.t = "B" THEN hash_branch(tree, HashTree(tree.left), HashTree(tree.right))
    ELSE IF tree.t = "L" THEN hash_leaf(tree)
    ELSE IF tree.t = "H" THEN tree.hash
    ELSE EmptyHash

\* Every leaf under a branch of the tree is where Branch::key_position of its
\* key at the branch says: Left in the left subtree, Right in the right one.
RECURSIVE PathConsistent(_)
PathConsistent(tree) ==
    tree.t = "B" =>
        /\ \A leaf \in LeavesOf(tree.left) :
               key_position(tree, leaf.key_hash).pos = "Left"
        /\ \A leaf \in LeavesOf(tree.right) :
               key_position(tree, leaf.key_hash).pos = "Right"
        /\ PathConsistent(tree.left)
        /\ PathConsistent(tree.right)

\* The prefix of every branch of the tree is the key words from start, the
\* first word its parent does not cover (0 at the root, the word after the
\* parent's word_idx below a branch), to word_idx - 2, in every key under it.
RECURSIVE PrefixWindow(_, _)
PrefixWindow(tree, start) ==
    LET window(word_idx) ==
            /\ \A leaf \in LeavesOf(tree) :
                   tree.prefix = Slice(leaf.key_hash, start,
                                       IF word_idx - 1 > start THEN word_idx - 1 ELSE start)
            /\ PrefixWindow(tree.left, word_idx + 1)
            /\ PrefixWindow(tree.right, word_idx + 1)
    IN tree.t = "B" => window(mask_word_idx(tree.mask))

\* The branches of a tree, each with the subtree under it.
RECURSIVE BranchesOf(_)
BranchesOf(tree) ==
    IF tree.t = "B" THEN {tree} \cup BranchesOf(tree.left) \cup BranchesOf(tree.right)
    ELSE {}

\* The indices of the Stored references of a transaction's trie: what
\* calc_root_hash_node hands to Store::calc_subtree_hash.
RECURSIVE StoredIdxs(_)
StoredIdxs(node_ref) ==
    IF node_ref.t = "B" THEN StoredIdxs(node_ref.left) \cup StoredIdxs(node_ref.right)
    ELSE IF node_ref.t = "S" THEN {node_ref.idx}
    ELSE {}

\* The tree of the open transaction
Tree == Expand(Builder(db, nodes), root)

(***************************************************************************)
(* Transaction::from_snapshot on a snapshot received from outside: the     *)
(* three vectors have any lengths up to MaxShape, whatever they hold.      *)
(* t2 is the result: [ok, store, root], ok = FALSE for Err(TrieError).     *)
(***************************************************************************)
\* entries of each vector of a received snapshot
MaxShape == 4

\* n copies of x
Fill(n, x) == [i \in 1..n |-> x]

\* The snapshots handed to from_snapshot.
Shapes ==
    {MkSnapshot(Fill(b, [t |-> "B", left |-> 0, right |-> 0,
                         mask |-> BranchMaskNew(0, W(0), W(1)),
                         prior_word |-> W(0), prefix |-> <<>>]),
                Fill(l, ModLeaf(KA, 1)),
                Fill(u, hash_leaf(ModLeaf(KB, 1)))) :
         b \in 0..MaxShape, l \in 0..MaxShape, u \in 0..MaxShape}

\* Transaction::from_snapshot with its Result: no transaction on Err.
from_snapshot_result(snapshot) ==
    LET opened(tr) ==
            IF tr.ok THEN [ok |-> TRUE, store |-> snapshot, root |-> tr.root]
            ELSE [ok |-> FALSE, store |-> MkSnapshot(<<>>, <<>>, <<>>), root |-> EmptyRoot]
    IN opened(snapshot_trie_root(snapshot))

\* No prover transaction is open.
NoProver ==
    /\ db = EmptyDb
    /\ nodes = <<>>
    /\ root = EmptyRoot
    /\ old_root = EmptyHash
    /\ hmap = InitMap(<<>>)
    /\ tmap = InitMap(<<>>)
    /\ last = NoLast
    /\ nops = 0
    /\ ncommits = 0
    /\ commit_log = <<>>
    /\ view = NoView
    /\ panicked = FALSE
    /\ dbgf = FALSE
    /\ log = <<>>

InitShape ==
    /\ NoProver
    /\ phase = "received"
    /\ snap \in Shapes
    /\ t2 = NoT2

\* Transaction::from_snapshot(&snap)
FromSnapshot ==
    /\ phase = "received"
    /\ t2' = from_snapshot_result(snap)
    /\ phase' = "opened"
    /\ UNCHANGED <<db, nodes, root, old_root, hmap, tmap, last, nops, ncommits,
                   commit_log, view, panicked, dbgf, log, snap>>

NextShape == FromSnapshot

SpecShape == InitShape /\ [][NextShape]_vars

(***************************************************************************)
(* Two transactions A and B, each over a SnapshotBuilder of its own, on    *)
(* one shared database (examples/prove-and-verify.rs: the prover holds the *)
(* database by Rc and makes a builder per transaction).  Both builders are *)
(* seeded with the same committed root; a builder reads the database only  *)
(* when a node is asked for, so an operation of B after a commit of A is   *)
(* the first read of B's trie after a later commit.  A is the open         *)
(* transaction (db, nodes, root); t2 holds                                 *)
(*   a:  A run alone, [db, nodes, root] over a database of its own         *)
(*   b:  B, [nodes, root] over the shared db                               *)
(*   bs: B run alone, [db, nodes, root] over a database of its own         *)
(*   agree: every call so far returned the same shared and alone           *)
(*   late: B made a call after A had written to the shared database        *)
(*   panic: a call panicked                                                *)
(* The calls of a transaction are atomic: MemoryDb is not Sync.            *)
(***************************************************************************)
InitIso ==
    /\ InitProver
    /\ snap = MkSnapshot(<<>>, <<>>, <<>>)
    /\ t2 = [a |-> [db |-> db, nodes |-> nodes, root |-> root],
             b |-> [nodes |-> nodes, root |-> root],
             bs |-> [db |-> db, nodes |-> nodes, root |-> root],
             agree |-> TRUE, late |-> FALSE, panic |-> FALSE]

\* The calls of a transaction that writes value.
IsoOps(value) == [op : {"Get", "Insert"}, k : Keys, v : {value}]

CanIso == CanApply /\ ~t2.panic

\* A call of A, in the shared run and alone.
OpA ==
    LET made(r, alone) ==
            t2' = [t2 EXCEPT !.a = [db |-> t2.a.db, nodes |-> alone.store.nodes,
                                    root |-> alone.node],
                             !.agree = t2.agree /\ Returned(r) = Returned(alone),
                             !.panic = r.panic \/ alone.panic]
    IN \E o \in IsoOps(2) :
           /\ CanIso
           /\ Apply(o.op, o.k, o.v)
           /\ made(trie_op(Builder(db, nodes), root, o.op, o.k, o.v),
                   trie_op(Builder(t2.a.db, t2.a.nodes), t2.a.root, o.op, o.k, o.v))
           /\ UNCHANGED log

\* A call of B, in the shared run and alone.
OpB ==
    LET made(r, alone) ==
            t2' = [t2 EXCEPT !.b = [nodes |-> r.store.nodes, root |-> r.node],
                             !.bs = [db |-> t2.bs.db, nodes |-> alone.store.nodes,
                                     root |-> alone.node],
                             !.agree = t2.agree /\ Returned(r) = Returned(alone),
                             !.late = t2.late \/ db # t2.bs.db,
                             !.panic = r.panic \/ alone.panic]
    IN \E o \in IsoOps(1) :
           /\ CanIso
           /\ made(trie_op(Builder(db, t2.b.nodes), t2.b.root, o.op, o.k, o.v),
                   trie_op(Builder(t2.bs.db, t2.bs.nodes), t2.bs.root, o.op, o.k, o.v))
           /\ nops' = nops + 1
           /\ UNCHANGED <<db, nodes, root, old_root, hmap, tmap, last, ncommits,
                          commit_log, view, panicked, dbgf, log, phase, snap>>

CanIsoCommit == phase = "txn" /\ ~panicked /\ ~t2.panic /\ ncommits < MaxCommits

\* A.commit(hasher), on the shared database and alone.
CommitA ==
    LET committed(c, alone) ==
            /\ db' = c.db
            /\ t2' = [t2 EXCEPT !.a.db = alone.db,
                                !.agree = t2.agree /\ c.ok = alone.ok /\ c.hash = alone.hash]
            /\ last' = [op |-> "Commit", ok |-> c.ok, agree |-> TRUE]
    IN /\ CanIsoCommit
       /\ committed(commit(Builder(db, nodes), root),
                    commit(Builder(t2.a.db, t2.a.nodes), t2.a.root))
       /\ ncommits' = ncommits + 1
       /\ UNCHANGED <<nodes, root, old_root, hmap, tmap, nops, commit_log, view,
                      panicked, dbgf, log, phase, snap>>

\* B.commit(hasher), on the shared database and alone.
CommitB ==
    LET committed(c, alone) ==
            /\ db' = c.db
            /\ t2' = [t2 EXCEPT !.bs.db = alone.db,
                                !.agree = t2.agree /\ c.ok = alone.ok /\ c.hash = alone.hash]
            /\ last' = [op |-> "Commit", ok |-> c.ok, agree |-> TRUE]
    IN /\ CanIsoCommit
       /\ committed(commit(Builder(db, t2.b.nodes), t2.b.root),
                    commit(Builder(t2.bs.db, t2.bs.nodes), t2.bs.root))
       /\ ncommits' = ncommits + 1
       /\ UNCHANGED <<nodes, root, old_root, hmap, tmap, nops, commit_log, view,
                      panicked, dbgf, log, phase, snap>>

NextIso ==
    \/ OpA
    \/ OpB
    \/ CommitA
    \/ CommitB

SpecIso == InitIso /\ [][NextIso]_vars

(***************************************************************************)
(* BranchMask::new on a word index and two words                           *)
(* (transaction/nodes.rs, tests::test_branch_mask).                        *)
(* t2 is [word_idx, a, b, mask]; mask is set by NewMask.                   *)
(***************************************************************************)
\* The bit positions the words of the inputs are made of: both ends of the
\* word and a position in the middle.
MaskBits == {0, 1, 15, 30, 31}

InitMask ==
    /\ NoProver
    /\ phase = "input"
    /\ snap = MkSnapshot(<<>>, <<>>, <<>>)
    /\ t2 \in [word_idx : 0..(KeyWords - 1), a : SUBSET MaskBits, b : SUBSET MaskBits,
               mask : {[bit_idx |-> 0, left_prefix |-> {}]}]

\* BranchMask::new(word_idx, a, b)
NewMask ==
    /\ phase = "input"
    /\ t2' = [t2 EXCEPT !.mask = BranchMaskNew(t2.word_idx, t2.a, t2.b)]
    /\ phase' = "made"
    /\ UNCHANGED <<db, nodes, root, old_root, hmap, tmap, last, nops, ncommits,
                   commit_log, view, panicked, dbgf, log, snap>>

NextMask == NewMask

SpecMask == InitMask /\ [][NextMask]_vars

(***************************************************************************)
(* Two inserts into an empty trie: insert(k1, 1) then insert(k2, 2) on a   *)
(* transaction opened on an empty store.  t2 is the pair [k1, k2].         *)
(***************************************************************************)
\* Keys that differ from KA in word 0 at the top bit, in word 1, and in the
\* last word at bit 31.
KF == [KA EXCEPT ![1] = {0, 31}]

KG == [KA EXCEPT ![2] = W(0)]

KH == [KA EXCEPT ![KeyWords] = {31}]

TwoKeys == Keys \cup {KF, KG, KH}

InitTwo ==
    /\ NoProver
    /\ phase = "txn"
    /\ snap = MkSnapshot(<<>>, <<>>, <<>>)
    /\ t2 \in {p \in [k1 : TwoKeys, k2 : TwoKeys] : p.k1 # p.k2}

\* txn.insert(k, v) on the open transaction
InsertPair(k, v) ==
    LET returned(r) ==
            /\ root' = r.node
            /\ nodes' = r.store.nodes
            /\ panicked' = r.panic
            /\ dbgf' = (dbgf \/ r.dbg)
            /\ last' = [op |-> "write", ok |-> r.ok, agree |-> TRUE]
    IN /\ returned(txn_insert(Builder(db, nodes), root, k, v))
       /\ nops' = nops + 1
       /\ UNCHANGED <<db, old_root, hmap, tmap, ncommits, commit_log, view, log,
                      phase, snap, t2>>

InsertFirst == phase = "txn" /\ nops = 0 /\ InsertPair(t2.k1, 1)

InsertSecond == phase = "txn" /\ nops = 1 /\ ~panicked /\ InsertPair(t2.k2, 2)

NextTwo == InsertFirst \/ InsertSecond

SpecTwo == InitTwo /\ [][NextTwo]_vars

(***************************************************************************)
(* A transaction on an empty store that is given inserts, by insert or by  *)
(* entry(k).insert(v), of keys that differ in word 0, 1, 2 or 3, so that   *)
(* every Adjacent position occurs at branches of every prefix length.      *)
(* log is the sequence of the operations given.                            *)
(***************************************************************************)
MaxIns == 4

\* differs from KA in word 1
KP == Key(1, 7, 3, 0)

WideKeys == {KA, KC, KD, KE, KP}

InitIns ==
    /\ NoProver
    /\ phase = "txn"
    /\ snap = MkSnapshot(<<>>, <<>>, <<>>)
    /\ t2 = NoT2

CanIns == phase = "txn" /\ ~panicked /\ nops < MaxIns

\* One insert of the sequence; r is what the call returned.
Inserted(o, r) ==
    /\ root' = r.node
    /\ nodes' = r.store.nodes
    /\ panicked' = r.panic
    /\ dbgf' = (dbgf \/ r.dbg)
    /\ last' = [op |-> "write", ok |-> r.ok, agree |-> TRUE]
    /\ log' = Append(log, o)
    /\ nops' = nops + 1
    /\ UNCHANGED <<db, old_root, hmap, tmap, ncommits, commit_log, view, phase,
                   snap, t2>>

\* txn.insert(k, 1)
InsertWide == \E k \in WideKeys :
    CanIns /\ Inserted([op |-> "Insert", k |-> k, v |-> 1],
                       txn_insert(Builder(db, nodes), root, k, 1))

\* txn.entry(k).insert(1)
EntryWide == \E k \in WideKeys :
    CanIns /\ Inserted([op |-> "EntryInsert", k |-> k, v |-> 1],
                       txn_entry(Builder(db, nodes), root, k, "insert", 1))

NextIns == InsertWide \/ EntryWide

SpecIns == InitIns /\ [][NextIns]_vars

(***************************************************************************)
(* Transaction::commit one database write at a time.  The callbacks of     *)
(* commit call DatabaseSet::set as calc_root_hash_node reaches each        *)
(* modified node; a set that returns Err ends the commit there.            *)
(* t2 is [writes, target]: the writes the commit has still to make, and    *)
(* the database Transaction::commit leaves when no set fails.              *)
(***************************************************************************)
Writes(ok, hash, writes) == [ok |-> ok, hash |-> hash, writes |-> writes]

\* Mutant: the callback of a branch runs before its subtrees are visited.
RECURSIVE commit_writes_branch_first(_, _)
commit_writes_branch_first(store, node_ref) ==
    LET written(left, right, hash) ==
            Writes(TRUE, hash,
                        <<[hash |-> hash, node |-> [node_ref EXCEPT !.left = left.hash,
                                                              !.right = right.hash]]>>
                            \o left.writes \o right.writes)
        visit(left, right) ==
            IF ~left.ok THEN left
            ELSE IF ~right.ok THEN Writes(FALSE, EmptyHash, left.writes \o right.writes)
            ELSE written(left, right, hash_branch(node_ref, left.hash, right.hash))
        stored(h) == Writes(h.ok, h.hash, <<>>)
    IN IF node_ref.t = "B"
       THEN visit(commit_writes_branch_first(store, node_ref.left),
                  commit_writes_branch_first(store, node_ref.right))
       ELSE IF node_ref.t = "L"
       THEN Writes(TRUE, hash_leaf(node_ref),
                   <<[hash |-> hash_leaf(node_ref), node |-> node_ref]>>)
       ELSE stored(calc_subtree_hash(store, node_ref.idx))

\* Transaction::calc_root_hash_node with the callbacks of commit: the calls
\* of DatabaseSet::set in the order they are made.  The left subtree is
\* visited, then the right one, then the branch is written.
RECURSIVE commit_writes(_, _)
commit_writes(store, node_ref) ==
    LET written(left, right, hash) ==
            Writes(TRUE, hash,
                        left.writes \o right.writes
                            \o <<[hash |-> hash, node |-> [node_ref EXCEPT !.left = left.hash,
                                                              !.right = right.hash]]>>)
        visit(left, right) ==
            IF ~left.ok THEN left
            ELSE IF ~right.ok THEN Writes(FALSE, EmptyHash, left.writes \o right.writes)
            ELSE written(left, right, hash_branch(node_ref, left.hash, right.hash))
        stored(h) == Writes(h.ok, h.hash, <<>>)
    IN IF node_ref.t = "B"
       THEN visit(commit_writes(store, node_ref.left),
                  commit_writes(store, node_ref.right))
       ELSE IF node_ref.t = "L"
       THEN Writes(TRUE, hash_leaf(node_ref),
                   <<[hash |-> hash_leaf(node_ref), node |-> node_ref]>>)
       ELSE stored(calc_subtree_hash(store, node_ref.idx))

\* The database after the writes.
RECURSIVE ApplyWrites(_, _)
ApplyWrites(d, writes) ==
    IF writes = <<>> THEN d
    ELSE ApplyWrites(DbSet(d, Head(writes).hash, Head(writes).node), Tail(writes))

\* Every branch the database holds has both its children in the database.
Closed(d) ==
    \A h \in DOMAIN d :
        d[h].t = "B" => DbHas(d, d[h].left) /\ DbHas(d, d[h].right)

\* txn.commit(hasher) is called.
StartCommit ==
    LET started(w) ==
            t2' = [writes |-> IF root = EmptyRoot THEN <<>> ELSE w.writes,
                   target |-> commit(Builder(db, nodes), root).db]
    IN /\ phase = "txn"
       /\ ~panicked
       /\ ncommits < MaxCommits
       /\ started(IF root = EmptyRoot THEN Writes(TRUE, EmptyHash, <<>>)
                  ELSE commit_writes(Builder(db, nodes), root))
       /\ phase' = "commit"
       /\ UNCHANGED <<db, nodes, root, old_root, hmap, tmap, last, nops, ncommits,
                      commit_log, view, panicked, dbgf, log, snap>>

\* The next DatabaseSet::set of the commit returns Ok.
WriteNode ==
    /\ phase = "commit"
    /\ t2.writes # <<>>
    /\ db' = DbSet(db, Head(t2.writes).hash, Head(t2.writes).node)
    /\ t2' = [t2 EXCEPT !.writes = Tail(t2.writes)]
    /\ UNCHANGED <<nodes, root, old_root, hmap, tmap, last, nops, ncommits,
                   commit_log, view, panicked, dbgf, log, phase, snap>>

\* The next DatabaseSet::set returns Err and commit returns the error.
SetFails ==
    /\ phase = "commit"
    /\ t2.writes # <<>>
    /\ phase' = "txn"
    /\ t2' = NoT2
    /\ ncommits' = ncommits + 1
    /\ last' = [op |-> "Commit", ok |-> FALSE, agree |-> TRUE]
    /\ UNCHANGED <<db, nodes, root, old_root, hmap, tmap, nops, commit_log, view,
                   panicked, dbgf, log, snap>>

\* commit returns the root hash.
CommitReturns ==
    /\ phase = "commit"
    /\ t2.writes = <<>>
    /\ phase' = "txn"
    /\ t2' = NoT2
    /\ ncommits' = ncommits + 1
    /\ last' = [op |-> "Commit", ok |-> TRUE, agree |-> db = t2.target]
    /\ UNCHANGED <<db, nodes, root, old_root, hmap, tmap, nops, commit_log, view,
                   panicked, dbgf, log, snap>>

NextCommit ==
    \/ Get
    \/ Insert
    \/ StartCommit
    \/ WriteNode
    \/ SetFails
    \/ CommitReturns

SpecCommit == Init /\ [][NextCommit]_vars

(***************************************************************************)
(* Calls on a snapshot received from outside, taken one store access at a  *)
(* time.  The fields of Snapshot are checked nowhere but in root_node_idx, *)
(* which looks at the three lengths: the left and right of a branch are    *)
(* any indices.  t2 is the transaction and the call in progress:           *)
(*   [ok, store, root, stack, ret, key, idx, turn, result]                 *)
(*   stack: the frames of Snapshot::calc_subtree_hash, each [idx, at,      *)
(*          left] with at = "enter", "left" (inside the call for the left  *)
(*          child) or "right"; ret: the value the callee just returned     *)
(*   key, idx: key_hash and stored_idx of the loop of get_stored_node      *)
(*   turn: the iterations the loop has made, modulo 2                      *)
(* phase is "received", "opened", "rejected" (from_snapshot returned Err), *)
(* the name of the call in progress, "returned", or "aborted" when the     *)
(* recursion has used up the stack of the thread.                          *)
(***************************************************************************)
\* branches of a received snapshot
MaxBranches == 2

\* frames of calc_subtree_hash the stack of the thread holds; more than a
\* descent through distinct entries of a received snapshot needs
MaxStack == 6

\* The snapshots received: up to MaxBranches branches over the words of KA
\* and KE with left and right any index up to one past the last entry, at
\* most one leaf and one unvisited hash.
Received ==
    LET branch(left, right) ==
            [t |-> "B", left |-> left, right |-> right,
             mask |-> BranchMaskNew(0, KA[1], KE[1]),
             prior_word |-> W(0), prefix |-> <<>>]
        of(b, l, u) ==
            {MkSnapshot(bs, Fill(l, ModLeaf(KA, 1)), Fill(u, hash_leaf(ModLeaf(KE, 1)))) :
                bs \in [1..b -> {branch(left, right) : left, right \in 0..(b + l + u)}]}
    IN UNION {of(b, l, u) : b \in 0..MaxBranches, l \in 0..1, u \in 0..1}

NoRet == [set |-> FALSE, ok |-> TRUE, hash |-> EmptyHash]

Ret(h) == [set |-> TRUE, ok |-> h.ok, hash |-> h.hash]

Frame(idx, at, left) == [idx |-> idx, at |-> at, left |-> left]

InitUntrusted ==
    /\ NoProver
    /\ phase = "received"
    /\ snap \in Received
    /\ t2 = NoT2

\* Transaction::from_snapshot(&snap)
OpenUntrusted ==
    LET opened(r) ==
            /\ t2' = [ok |-> r.ok, store |-> r.store, root |-> r.root,
                      stack |-> <<>>, ret |-> NoRet, key |-> KA, idx |-> 0,
                      turn |-> 0, result |-> NoRet]
            /\ phase' = IF r.ok THEN "opened" ELSE "rejected"
    IN /\ phase = "received"
       /\ opened(from_snapshot_result(snap))
       /\ UNCHANGED <<db, nodes, root, old_root, hmap, tmap, last, nops, ncommits,
                      commit_log, view, panicked, dbgf, log, snap>>

\* Snapshot::calc_root_hash, or Transaction::calc_root_hash of the
\* transaction just opened: the call of calc_subtree_hash on the root index.
CallCalcRootHash ==
    /\ phase = "opened"
    /\ IF t2.root = EmptyRoot
       THEN /\ t2' = [t2 EXCEPT !.result = Ret(Hashed(TRUE, EmptyHash))]
            /\ phase' = "returned"
       ELSE /\ t2' = [t2 EXCEPT !.stack = <<Frame(t2.root.idx, "enter", EmptyHash)>>]
            /\ phase' = "calc_root_hash"
    /\ UNCHANGED <<db, nodes, root, old_root, hmap, tmap, last, nops, ncommits,
                   commit_log, view, panicked, dbgf, log, snap>>

\* One step of <Snapshot as Store>::calc_subtree_hash: the frame on top
\* looks its index up and calls itself on a child or returns, or takes the
\* value its callee returned.
HashStep ==
    LET depth == Len(t2.stack)
        top == t2.stack[depth]
        b == Len(t2.store.branches)
        l == Len(t2.store.leaves)
        u == Len(t2.store.unvisited_nodes)
        popped == SubSeq(t2.stack, 1, depth - 1)
        call(frames, idx) ==
            IF Len(frames) >= MaxStack
            THEN t2' = t2 /\ phase' = "aborted"
            ELSE /\ t2' = [t2 EXCEPT !.stack = Append(frames, Frame(idx, "enter", EmptyHash)),
                                     !.ret = NoRet]
                 /\ phase' = phase
        return(h) ==
            /\ t2' = [t2 EXCEPT !.stack = popped, !.ret = Ret(h)]
            /\ phase' = phase
        enter ==
            IF top.idx < b
            THEN call([t2.stack EXCEPT ![depth].at = "left"],
                      t2.store.branches[top.idx + 1].left)
            ELSE IF top.idx < b + l
            THEN return(Hashed(TRUE, hash_leaf(t2.store.leaves[top.idx - b + 1])))
            ELSE IF top.idx < b + l + u
            THEN return(Hashed(TRUE, t2.store.unvisited_nodes[top.idx - b - l + 1]))
            ELSE return(Hashed(FALSE, EmptyHash))
        resume ==
            IF depth = 0
            THEN t2' = [t2 EXCEPT !.result = t2.ret, !.ret = NoRet] /\ phase' = "returned"
            ELSE IF ~t2.ret.ok THEN return(t2.ret)
            ELSE IF top.at = "left"
            THEN call([t2.stack EXCEPT ![depth].at = "right", ![depth].left = t2.ret.hash],
                      t2.store.branches[top.idx + 1].right)
            ELSE return(Hashed(TRUE, hash_branch(t2.store.branches[top.idx + 1],
                                                 top.left, t2.ret.hash)))
    IN /\ phase = "calc_root_hash"
       /\ IF t2.ret.set THEN resume ELSE enter
       /\ UNCHANGED <<db, nodes, root, old_root, hmap, tmap, last, nops, ncommits,
                      commit_log, view, panicked, dbgf, log, snap>>

\* txn.get(key_hash) on the transaction just opened: Transaction::get and
\* get_node hand the Stored root to get_stored_node.
CallGet ==
    \E k \in {KA, KE} :
        /\ phase = "opened"
        /\ IF t2.root = EmptyRoot
           THEN t2' = [t2 EXCEPT !.key = k, !.result = Ret(Hashed(TRUE, EmptyHash))]
                /\ phase' = "returned"
           ELSE t2' = [t2 EXCEPT !.key = k, !.idx = t2.root.idx] /\ phase' = "get"
        /\ UNCHANGED <<db, nodes, root, old_root, hmap, tmap, last, nops, ncommits,
                       commit_log, view, panicked, dbgf, log, snap>>

\* One iteration of the loop of Transaction::get_stored_node.  result.hash
\* is the Option<&V> as a hash of no or one value.
GetStep ==
    LET return(ok, res) ==
            /\ t2' = [t2 EXCEPT !.result = Ret(Hashed(ok, res))]
            /\ phase' = "returned"
        descend(stored_idx) ==
            /\ t2' = [t2 EXCEPT !.idx = stored_idx, !.turn = 1 - t2.turn]
            /\ phase' = phase
        at_branch(branch, kp) ==
            IF kp.pos = "Left" THEN descend(branch.left)
            ELSE IF kp.pos = "Right" THEN descend(branch.right)
            ELSE return(TRUE, EmptyHash)
        at_node(g) ==
            IF ~g.ok THEN return(FALSE, EmptyHash)
            ELSE IF g.node.t = "B" THEN at_branch(g.node, key_position(g.node, t2.key))
            ELSE IF g.node.key_hash = t2.key THEN return(TRUE, <<g.node.value>>)
            ELSE return(TRUE, EmptyHash)
    IN /\ phase = "get"
       /\ at_node(snapshot_get_node(t2.store, t2.idx))
       /\ UNCHANGED <<db, nodes, root, old_root, hmap, tmap, last, nops, ncommits,
                      commit_log, view, panicked, dbgf, log, snap>>

NextUntrusted ==
    \/ OpenUntrusted
    \/ CallCalcRootHash
    \/ HashStep
    \/ CallGet
    \/ GetStep

\* A call that has started goes on: the thread is not stopped from outside.
SpecUntrusted == InitUntrusted /\ [][NextUntrusted]_vars /\ WF_vars(NextUntrusted)

(***************************************************************************)
(* Claims                                                                  *)
(***************************************************************************)

\* C1: a verifier that opens the snapshot of a proved batch finds that it
\* hashes to the old root, and once it has replayed the whole batch its
\* calc_root_hash is the root the prover's commit returned.
C1_ProverVerifierAgree ==
    phase = "verify" =>
        /\ t2.pre
        /\ (t2.pos = Len(log) /\ t2.ok /\ ~t2.panic) =>
               calc_root_hash(t2.store, t2.root) = Hashed(TRUE, commit_log[1].hash)

\* The verifier has replayed a batch of MaxOps operations that changed the
\* root of a stored trie, over a snapshot that keeps an unvisited hash.
C1_Witness ==
    /\ phase = "verify"
    /\ t2.pos = Len(log) /\ Len(log) = MaxOps
    /\ t2.ok /\ ~t2.panic
    /\ old_root # EmptyHash
    /\ commit_log[1].hash # old_root
    /\ Len(snap.branches) >= 1
    /\ Len(snap.unvisited_nodes) >= 1

\* C2: at every point of a prover transaction opened at root R, whatever it
\* read, wrote or committed, calc_root_hash of the snapshot returned by
\* build_initial_snapshot is R (Empty when R is Empty).
C2_SnapshotIsOldRoot ==
    snapshot_calc_root_hash(CurSnapshot) = Hashed(TRUE, old_root)

\* A transaction on a stored trie has written a value and committed, and its
\* snapshot holds a visited branch beside an unvisited hash.
C2_Witness ==
    /\ old_root # EmptyHash
    /\ \E k \in Keys : tmap[k] # 0
    /\ ncommits >= 1
    /\ Len(CurSnapshot.branches) >= 1
    /\ Len(CurSnapshot.unvisited_nodes) >= 1

\* C3: after any sequence of insert and entry operations, split into any
\* number of committed and re-opened transactions, get(k) returns for every
\* key the value the reference map holds (None for a key never written).
\* Stated for the runs that no build stops (no panic, no failed debug
\* assertion).
C3_MapEquivalence ==
    (~panicked /\ ~dbgf) =>
        \A k \in Keys : GetRes(k).ok /\ GetRes(k).res = hmap[k]

\* C4: inside one transaction, once insert(k, v) has returned Ok, get(k)
\* returns Some(v), also after later inserts of other keys.  tmap[k] is the
\* last value the open transaction wrote for k.
C4_InsertGetRoundTrip ==
    (~panicked /\ ~dbgf) =>
        \A k \in Keys : tmap[k] # 0 => GetRes(k).res = tmap[k]

\* C5: a transaction re-opened on a fresh SnapshotBuilder seeded with the
\* root commit returned finds every node it needs in the database and
\* returns, for every key, what get returned in the committed transaction.
C5_ReopenRoundTrip ==
    view # NoView => \A k \in Keys : GetRes(k).ok /\ GetRes(k).res = view[k]

\* A re-opened transaction on a trie that holds a value the committed
\* transaction wrote (the initial tries hold only the value 1).
C5_Witness ==
    /\ last.op = "Reopen"
    /\ root = Stored(0)
    /\ \E k \in Keys : view[k] = 2
    /\ \E k \in Keys : view[k] = 0

\* C6: no operation of the replay returns Err: every index the replay hands
\* to Snapshot::get_node is a branch or a leaf of the snapshot.
C6_SnapshotSufficient ==
    phase = "verify" => t2.ok

\* The replay has gone through stored nodes of the snapshot and rebuilt a
\* modified branch over them, beside an unvisited hash.
C6_Witness ==
    /\ phase = "verify"
    /\ t2.pos = Len(log) /\ Len(log) >= 1
    /\ t2.root.t = "B"
    /\ Len(snap.leaves) >= 1
    /\ Len(snap.unvisited_nodes) >= 1

\* C7: after insert or entry returned Err because the store could not supply
\* a node, every get(k) and calc_root_hash of the transaction returns what
\* it returns in the twin transaction that did not make the failed call.
C7_FailedCallUnobservable ==
    phase = "verify" =>
        /\ ~t2.apart
        /\ \A k \in Keys : Seen(txn_get(t2.store, t2.root, k))
                               = Seen(txn_get(t2.store, t2.twin, k))
        /\ calc_root_hash(t2.store, t2.root) = calc_root_hash(t2.store, t2.twin)

\* A call failed after its descent had turned stored references into
\* modified branches, and another call was made after it.
C7_Witness ==
    /\ phase = "verify"
    /\ t2.nfail >= 1
    /\ t2.pos > t2.nfail
    /\ ~t2.panic
    /\ t2.twin.t = "B"
    /\ t2.root # t2.twin
    /\ \E k \in Keys : txn_get(t2.store, t2.root, k).res = 2

\* C8: a sequence of operations written with entry returns at every step
\* what the same sequence written with get and insert returns, and ends
\* with the same calc_root_hash, over a SnapshotBuilder and over a Snapshot.
C8_EntryEquivalence ==
    /\ t2.agree
    /\ RootHash(t2.bd) = RootHash(t2.be)
    /\ RootHash(t2.sd) = RootHash(t2.se)

\* MaxOps operations have been made, they changed the root hash, and the
\* entry form left other nodes in modified form than the direct form did.
C8_Witness ==
    /\ t2.pos = MaxOps
    /\ ~t2.panic
    /\ old_root # EmptyHash
    /\ RootHash(t2.be) # Hashed(TRUE, old_root)
    /\ RootHash(t2.se) # Hashed(TRUE, old_root)
    /\ t2.bd.root # t2.be.root
    /\ t2.sd.root # t2.se.root
    /\ Len(t2.se.store.branches) >= 2

\* C9: two executions of the same operations from the same root over equal
\* databases have the same calc_root_hash, also when one of them called
\* calc_root_hash, commit or build_initial_snapshot between the operations.
C9_HashDeterminism ==
    calc_root_hash(Builder(db, nodes), root) = RootHash(t2)

\* An operation, a commit that wrote nodes to the database of the first
\* execution, a snapshot, and a write after them.
C9_Witness ==
    /\ nops = MaxOps
    /\ ncommits >= 1
    /\ db # t2.store.db
    /\ last.op = "write"
    /\ Len(snap.branches) >= 1
    /\ old_root # EmptyHash
    /\ RootHash(t2) # Hashed(TRUE, old_root)

\* C10: two commits in a row on the same transaction return equal root
\* hashes, and the database after the second equals the database after the
\* first.
C10_IdempotentCommit ==
    Len(commit_log) >= 2 =>
        /\ commit_log[Len(commit_log)].hash = commit_log[Len(commit_log) - 1].hash
        /\ commit_log[Len(commit_log)].db = commit_log[Len(commit_log) - 1].db

\* Two commits in a row of a transaction that holds modified nodes, the
\* first of which wrote nodes to the database.
C10_Witness ==
    /\ Len(commit_log) >= 2
    /\ root.t = "B"
    /\ \E k \in Keys : tmap[k] # 0
    /\ ~DbHas(InitCommit(<<KA, KB, KC>>).db, commit_log[1].hash)
    /\ ~DbHas(InitCommit(<<KA, KC, KD>>).db, commit_log[1].hash)
    /\ DbHas(db, commit_log[1].hash)

\* C11: when the trie holds a leaf for K, insert(K, v2) returns Ok and leaves
\* the tree as it was but for the value of that leaf, so that the root hash
\* is the hash of the old tree with v2 in the place of the old value.
C11_UpdateInPlace ==
    LET in_place(r, k, v) ==
            /\ r.ok /\ ~r.panic
            /\ Expand(r.store, r.node) = SetValue(Tree, k, v)
            /\ calc_root_hash(r.store, r.node) = Hashed(TRUE, HashTree(SetValue(Tree, k, v)))
    IN ~panicked =>
           \A k \in Keys :
               (\E leaf \in LeavesOf(Tree) : leaf.key_hash = k) =>
                   \A v \in Values :
                       in_place(txn_insert(Builder(db, nodes), root, k, v), k, v)

\* C12: the snapshot build_initial_snapshot returns at any point of a prover
\* transaction is accepted by from_snapshot, and its root index (Empty for
\* an empty arena, 0 when it has no branch, |branches| - 1 otherwise) is the
\* index the fold gave to arena entry 0 and names the branch, leaf or
\* unvisited hash made from that entry.
C12_SnapshotShape ==
    LET same_node(s, idx, e) ==
            LET leaf_offset == Len(s.branches)
                unvisited_offset == leaf_offset + Len(s.leaves)
            IN /\ IF e.node = NoneNode
                  THEN /\ idx >= unvisited_offset
                       /\ idx < unvisited_offset + Len(s.unvisited_nodes)
                       /\ s.unvisited_nodes[idx - unvisited_offset + 1] = e.hash
                  ELSE IF e.node.t = "B"
                  THEN /\ idx < leaf_offset
                       /\ s.branches[idx + 1].mask = e.node.mask
                       /\ s.branches[idx + 1].prior_word = e.node.prior_word
                       /\ s.branches[idx + 1].prefix = e.node.prefix
                  ELSE /\ idx >= leaf_offset /\ idx < unvisited_offset
                       /\ s.leaves[idx - leaf_offset + 1] = e.node
               /\ HashTree(ExpandSnapshot(s, idx)) = e.hash
        shape(s, r) ==
            /\ r.ok
            /\ snapshot_trie_root(s).ok
            /\ IF Len(nodes) = 0 THEN r.root = -1
               ELSE /\ r.root = initial_fold(nodes).idx
                    /\ r.root = IF Len(s.branches) = 0 THEN 0 ELSE Len(s.branches) - 1
                    /\ Len(s.branches) = 0 => Len(s.leaves) + Len(s.unvisited_nodes) = 1
                    /\ same_node(s, r.root, nodes[1])
    IN shape(CurSnapshot, root_node_idx(CurSnapshot))

\* After MaxOps operations the snapshot has two branches or more, leaves and
\* unvisited hashes, so its root is neither the first branch nor index 0.
C12_Witness ==
    /\ nops = MaxOps
    /\ Len(CurSnapshot.branches) >= 2
    /\ Len(CurSnapshot.leaves) >= 1
    /\ Len(CurSnapshot.unvisited_nodes) >= 1

\* C13 as stated: in the snapshot of a builder every left and right index of
\* a branch is less than the index of that branch, whatever the child is.
C13_ChildBelowParent ==
    LET below(s) ==
            \A i \in 1..Len(s.branches) :
                s.branches[i].left < i - 1 /\ s.branches[i].right < i - 1
    IN below(CurSnapshot)

\* C13 amended: every left and right index of a branch names an entry of the
\* snapshot, and one that names a branch is less than the index of its
\* parent; a leaf or an unvisited hash has an index from |branches| on, which
\* is above every branch.
C13_BranchChildBelowParent ==
    LET below(s) ==
            LET size == Len(s.branches) + Len(s.leaves) + Len(s.unvisited_nodes)
            IN \A i \in 1..Len(s.branches) :
                   \A c \in {s.branches[i].left, s.branches[i].right} :
                       /\ c >= 0 /\ c < size
                       /\ c < Len(s.branches) => c < i - 1
    IN below(CurSnapshot)

\* A snapshot in which a branch has a branch for a child, and branches have
\* leaves and unvisited hashes for children.
C13_Witness ==
    LET mixed(s) ==
            /\ \E i \in 1..Len(s.branches) :
                   s.branches[i].left < Len(s.branches)
                       \/ s.branches[i].right < Len(s.branches)
            /\ Len(s.leaves) >= 1
            /\ Len(s.unvisited_nodes) >= 1
    IN nops >= 1 /\ mixed(CurSnapshot)

\* C14: from_snapshot follows the table on the lengths (branches, leaves,
\* unvisited): (0,0,0) opens with root Empty; a single entry opens with root
\* Stored(0); n >= 1 branches open with root Stored(n - 1); no branch and
\* more than one leaf or unvisited hash is an error, and no transaction.
C14_ShapeTable ==
    LET table(b, l, u) ==
            /\ (b = 0 /\ l = 0 /\ u = 0) => (t2.ok /\ t2.root = EmptyRoot)
            /\ (b + l + u = 1) => (t2.ok /\ t2.root = Stored(0))
            /\ (b >= 1) => (t2.ok /\ t2.root = Stored(b - 1))
            /\ (b = 0 /\ l + u > 1) => ~t2.ok
            /\ t2.ok => t2.store = snap
    IN phase = "opened" =>
           table(Len(snap.branches), Len(snap.leaves), Len(snap.unvisited_nodes))

\* from_snapshot has rejected a snapshot without branches that holds a leaf
\* and an unvisited hash.
C14_Witness ==
    /\ phase = "opened"
    /\ ~t2.ok
    /\ Len(snap.branches) = 0
    /\ Len(snap.leaves) >= 1
    /\ Len(snap.unvisited_nodes) >= 1

\* C15: get(k) leaves the tree of the transaction as it was and hands back
\* the same database; every index its descent handed to the SnapshotBuilder
\* is loaded in the arena afterwards; and for every get of a batch, whatever
\* the batch did after it, every such index is still loaded when the batch
\* is over and is a branch or a leaf of the snapshot built then.
C15_GetFrame ==
    LET frame(r, k) ==
            /\ r.store.db = db
            /\ Expand(r.store, root) = Tree
            /\ \A i \in get_path(Builder(db, nodes), root, k) :
                   r.store.nodes[i + 1].node # NoneNode
        kept(i) ==
            /\ nodes[i + 1].node # NoneNode
            /\ \E j \in 0..(Len(snap.branches) + Len(snap.leaves) - 1) :
                   HashTree(ExpandSnapshot(snap, j)) = nodes[i + 1].hash
        visited(before, k) ==
            \A i \in get_path(before.store, before.root, k) : kept(i)
    IN /\ (phase = "txn" /\ ~panicked) =>
              \A k \in Keys : frame(txn_get(Builder(db, nodes), root, k), k)
       /\ phase = "proved" =>
              \A n \in 1..Len(log) :
                  log[n].op = "Get" =>
                      visited(ReplayLog(Txn(Builder(db, builder_with_trie_root_hash(old_root)),
                                            builder_trie_root(
                                                builder_with_trie_root_hash(old_root))),
                                        n - 1),
                              log[n].k)

\* A batch on a stored trie began with a get that went through stored
\* branches and went on with a write; the snapshot built at its end has
\* branches, leaves and unvisited hashes.
C15_Witness ==
    /\ phase = "proved"
    /\ Len(log) = MaxOps
    /\ log[1].op = "Get"
    /\ log[Len(log)].op = "Insert"
    /\ Cardinality(get_path(Builder(db, builder_with_trie_root_hash(old_root)),
                            builder_trie_root(builder_with_trie_root_hash(old_root)),
                            log[1].k)) >= 3
    /\ Len(snap.branches) >= 2
    /\ Len(snap.unvisited_nodes) >= 1

\* C16: only commit writes to the database.  As long as the transaction has
\* not committed, the database is the one it was opened on, whatever was
\* read, written to the trie, hashed or built; after a commit, calc_root_hash
\* and build_initial_snapshot leave the database the commit returned; and in
\* every state calc_root_hash run over the database, and every operation the
\* transaction can still be given, hand back that database unchanged.
C16_OnlyCommitWrites ==
    /\ ncommits = 0 =>
           \E seq \in InitSeqs :
               old_root = InitCommit(seq).hash /\ db = InitCommit(seq).db
    /\ commit_log # <<>> => db = commit_log[Len(commit_log)].db
    /\ ~panicked => calc_root_hash_inner(Builder(db, nodes), db, root, FALSE).db = db
    /\ CanApply =>
           \A k \in Keys :
               \A op \in {"Get", "Insert", "EntryGet", "EntryInsert",
                          "EntryAndModifyOrInsert", "EntryOrInsert"} :
                   trie_op(Builder(db, nodes), root, op, k, 2).store.db = db

\* Writes to the trie, then a commit that wrote new nodes to the database,
\* then calc_root_hash, with a snapshot built on the way.
C16_Witness ==
    /\ last.op = "CalcRootHash"
    /\ commit_log # <<>>
    /\ nops >= 1
    /\ root.t = "B"
    /\ Len(snap.branches) >= 1
    /\ \A seq \in InitSeqs : db # InitCommit(seq).db

\* C17: with two transactions over builders of their own on one database,
\* in every interleaving of their calls and commits each call and commit
\* returns what it returns when the transaction runs alone, and get of every
\* key and calc_root_hash of each transaction are those of the run alone.
C17_Isolation ==
    LET same(store, current_root, alone) ==
            /\ \A k \in Keys :
                   Seen(txn_get(store, current_root, k))
                       = Seen(txn_get(Builder(alone.db, alone.nodes), alone.root, k))
            /\ calc_root_hash(store, current_root)
                   = calc_root_hash(Builder(alone.db, alone.nodes), alone.root)
    IN /\ t2.agree
       /\ same(Builder(db, nodes), root, t2.a)
       /\ same(Builder(db, t2.b.nodes), t2.b.root, t2.bs)

\* Both transactions have committed different tries to the shared database,
\* and B made a call after A had written to it.
C17_Witness ==
    /\ ncommits >= 2
    /\ t2.late
    /\ ~t2.panic
    /\ db # t2.a.db
    /\ db # t2.bs.db
    /\ old_root # EmptyHash
    /\ calc_root_hash(Builder(db, nodes), root) # Hashed(TRUE, old_root)
    /\ calc_root_hash(Builder(db, t2.b.nodes), t2.b.root) # Hashed(TRUE, old_root)
    /\ calc_root_hash(Builder(db, nodes), root)
           # calc_root_hash(Builder(db, t2.b.nodes), t2.b.root)

\* C18: for a # b the mask BranchMask::new(word_idx, a, b) makes one of a, b
\* a left descendant and the other a right descendant, and each of them is
\* exactly one of the two; the mask is in the word word_idx.
C18_BranchMaskLaw ==
    LET law(m, a, b) ==
            /\ is_left_descendant(m, a) # is_right_descendant(m, a)
            /\ is_left_descendant(m, b) # is_right_descendant(m, b)
            /\ is_left_descendant(m, a) # is_left_descendant(m, b)
            /\ mask_word_idx(m) = t2.word_idx
    IN (phase = "made" /\ t2.a # t2.b) => law(t2.mask, t2.a, t2.b)

\* A mask made in the last word of two words that first differ at bit 31,
\* the first of which is the right descendant.
C18_Witness ==
    /\ phase = "made"
    /\ t2.a # t2.b
    /\ t2.word_idx = KeyWords - 1
    /\ relative_bit_idx(t2.mask) = 31
    /\ t2.mask.left_prefix # {}
    /\ is_right_descendant(t2.mask, t2.a)

C20_PathConsistent == ~panicked => PathConsistent(Tree)

\* C21: no insert or entry operation panics: no index or slice taken into a
\* branch prefix is out of range, BranchMask::new is not given two equal
\* words, and no debug assertion of key_position or new_adjacent_leaf_ret
\* fails.
C21_NoPanic == ~panicked /\ ~dbgf

\* C22: in every trie reachable by insert and entry operations the prefix of
\* each branch is the key words from the first word not covered by its parent
\* to word word_idx - 2, and is empty when the parent lies in the same or in
\* the preceding word.
C22_PrefixWindow == ~panicked => PrefixWindow(Tree, 0)

\* C23: when key_position reports PrefixVec(i) at a branch whose prefix covers
\* the key words s .. word_idx - 2, for any s, new_adjacent_leaf_ret makes a
\* parent whose discriminant is taken from the old prefix word for key word i
\* and the key's word i, which holds the old prefix words for key words
\* s .. i - 1 (the last of them as prior_word, the others as prefix), and
\* leaves the old branch the old prefix words for key words
\* i + 1 .. word_idx - 2.
C23_PrefixVecSplit ==
    LET old_word(b, s, j) == b.prefix[j - s + 1]
        split(b, k, s, i, r) ==
            /\ ~r.panic
            /\ r.node.t = "B"
            /\ r.node.mask = BranchMaskNew(i, old_word(b, s, i), k[i + 1])
            /\ r.node.prefix = [j \in 1..(i - 1 - s) |-> old_word(b, s, s + j - 1)]
            /\ i > s => r.node.prior_word = old_word(b, s, i - 1)
            /\ \E old \in {r.node.left, r.node.right} :
                   /\ old.t = "B"
                   /\ old.mask = b.mask
                   /\ old.prefix = [j \in 1..(mask_word_idx(b.mask) - 2 - i)
                                        |-> old_word(b, s, i + j)]
        at(b, k, kp) ==
            (kp.pos = "PrefixVec" /\ Len(b.prefix) + 1 <= mask_word_idx(b.mask)) =>
                split(b, k, SatSub(mask_word_idx(b.mask), Len(b.prefix) + 1), kp.idx,
                      new_adjacent_leaf_ret(b, kp, ModLeaf(k, 1)))
    IN ~panicked =>
           \A b \in BranchesOf(root) : \A k \in WideKeys : at(b, k, key_position(b, k))

\* C24: after every insert and entry call on a transaction, returned Ok or
\* Err, no node reference of its trie is the placeholder Stored(u32::MAX), and
\* get of any key hands no such index to the store.
C24_NoSentinel ==
    LET clean(store, current_root) ==
            /\ U32_MAX \notin StoredIdxs(current_root)
            /\ \A k \in Keys : U32_MAX \notin get_path(store, current_root, k)
    IN /\ clean(Builder(db, nodes), root)
       /\ phase = "verify" => clean(t2.store, t2.root) /\ clean(t2.store, t2.twin)

\* A transaction over a partial snapshot in which a call returned Err and a
\* later insert put a new parent above a branch read from the snapshot.
C24_Witness ==
    /\ phase = "verify"
    /\ t2.nfail >= 1
    /\ ~t2.panic
    /\ t2.root.t = "B"
    /\ \E child \in {t2.root.left, t2.root.right} :
           /\ child.t = "B"
           /\ StoredIdxs(child) # {}
    /\ \E leaf \in {t2.root.left, t2.root.right} : leaf.t = "L"

\* C25: commit writes a modified branch after the modified nodes of its left
\* and then of its right subtree, so at every point of a commit, and after a
\* commit that a failed set ended, every branch in the database has both its
\* children in the database; the writes still to come lead to the database
\* commit leaves, and a commit that returns Ok has left that database.
C25_CommitPostOrder ==
    /\ Closed(db)
    /\ phase = "commit" => ApplyWrites(db, t2.writes) = t2.target
    /\ last.op = "Commit" => last.agree

\* In the middle of a commit of a trie with modified branches: a leaf has
\* been written and a branch is still to be written.
C25_Witness ==
    /\ phase = "commit"
    /\ nops >= 1
    /\ Len(t2.writes) >= 2
    /\ db # t2.target
    /\ ncommits = 0
    /\ \A seq \in InitSeqs : db # InitCommit(seq).db
    /\ t2.writes[Len(t2.writes)].node.t = "B"
    /\ ~DbHas(db, t2.writes[Len(t2.writes)].node.left)
           \/ ~DbHas(db, t2.writes[Len(t2.writes)].node.right)

\* C26: SnapshotBuilder::get_node(idx) on an arena of length n returns the
\* node of a loaded entry and leaves the arena alone; loads a branch of the
\* database into entry idx with left = n and right = n + 1 and appends the
\* unloaded entries of its two child hashes; loads a leaf into entry idx and
\* changes nothing else; returns an error and leaves the arena alone when the
\* database has no node for the hash or idx is out of range.  No entry's hash
\* changes and no loaded entry becomes unloaded.
C26_GetNode ==
    LET unloaded(hash) == [hash |-> hash, node |-> NoneNode]
        kept(ns, r) ==
            /\ Len(r.store.nodes) >= Len(ns)
            /\ \A i \in 1..Len(ns) :
                   /\ r.store.nodes[i].hash = ns[i].hash
                   /\ ns[i].node # NoneNode => r.store.nodes[i].node = ns[i].node
        others(ns, r, idx) ==
            \A i \in 1..Len(ns) : i # idx + 1 => r.store.nodes[i] = ns[i]
        loaded(store, r, idx, n, e) ==
            IF e.node # NoneNode
            THEN r.ok /\ r.node = e.node /\ r.store = store
            ELSE IF ~DbHas(store.db, e.hash)
            THEN ~r.ok /\ r.store = store
            ELSE IF store.db[e.hash].t = "B"
            THEN /\ r.ok
                 /\ Len(r.store.nodes) = n + 2
                 /\ r.store.nodes[n + 1] = unloaded(store.db[e.hash].left)
                 /\ r.store.nodes[n + 2] = unloaded(store.db[e.hash].right)
                 /\ r.node = [store.db[e.hash] EXCEPT !.left = n, !.right = n + 1]
                 /\ r.store.nodes[idx + 1] = [hash |-> e.hash, node |-> r.node]
                 /\ others(store.nodes, r, idx)
                 /\ r.store.db = store.db
            ELSE /\ r.ok
                 /\ r.node = store.db[e.hash]
                 /\ Len(r.store.nodes) = n
                 /\ r.store.nodes[idx + 1] = [hash |-> e.hash, node |-> r.node]
                 /\ others(store.nodes, r, idx)
                 /\ r.store.db = store.db
        call(store, idx, r) ==
            /\ kept(store.nodes, r)
            /\ IF idx >= Len(store.nodes) THEN ~r.ok /\ r.store = store
               ELSE loaded(store, r, idx, Len(store.nodes), store.nodes[idx + 1])
    IN \A d \in {db, EmptyDb} :
           \A idx \in 0..(Len(nodes) + 1) :
               call(Builder(d, nodes), idx, builder_get_node(Builder(d, nodes), idx))

\* An arena in which get_node has loaded a branch and a leaf: the branch
\* points at the two entries appended for it, one loaded and one not.
C26_Witness ==
    /\ Len(nodes) >= 3
    /\ \E i \in 1..Len(nodes) :
           /\ nodes[i].node # NoneNode
           /\ nodes[i].node.t = "B"
           /\ nodes[i].node.right = nodes[i].node.left + 1
           /\ nodes[nodes[i].node.left + 1].node = NoneNode
           /\ nodes[nodes[i].node.right + 1].node # NoneNode
           /\ nodes[nodes[i].node.right + 1].node.t = "L"
    /\ \E i \in 1..Len(nodes) :
           nodes[i].node = NoneNode /\ DbHas(db, nodes[i].hash)
                                    /\ db[nodes[i].hash].t = "B"

\* The snapshot entry idx of s stands for the arena entry node_idx of ns, and
\* so does every entry below it: a loaded branch is a branch with the same
\* mask, prior_word and prefix whose left stands for the arena's left child
\* and whose right stands for the arena's right child, a loaded leaf is the
\* same leaf, an entry that is not loaded is an unvisited hash, the same one.
RECURSIVE Materialized(_, _, _, _)
Materialized(ns, s, node_idx, idx) ==
    LET e == ns[node_idx + 1]
        b == Len(s.branches)
        l == Len(s.leaves)
        same(branch) ==
            /\ branch.mask = e.node.mask
            /\ branch.prior_word = e.node.prior_word
            /\ branch.prefix = e.node.prefix
            /\ Materialized(ns, s, e.node.left, branch.left)
            /\ Materialized(ns, s, e.node.right, branch.right)
    IN IF e.node.t = "B" THEN idx >= 0 /\ idx < b /\ same(s.branches[idx + 1])
       ELSE IF e.node.t = "L" THEN idx >= b /\ idx < b + l /\ s.leaves[idx - b + 1] = e.node
       ELSE /\ idx >= b + l
            /\ idx < b + l + Len(s.unvisited_nodes)
            /\ s.unvisited_nodes[idx - b - l + 1] = e.hash

\* C27: build_initial_snapshot maps every arena entry to one snapshot entry:
\* loaded branches to branches, loaded leaves to leaves, the other entries to
\* unvisited_nodes with their hash, so the three lengths add up to the arena
\* length; every branch's left and right name the entries of its arena
\* children, not exchanged; the builder is not modified, and a second call
\* on the unchanged builder returns an equal snapshot.
C27_Materialization ==
    LET counted(ns, s) ==
            /\ Len(s.branches) = CountNodes(ns, "B")
            /\ Len(s.leaves) = CountNodes(ns, "L")
            /\ Len(s.unvisited_nodes) = CountNodes(ns, NoneNode.t)
            /\ Len(s.branches) + Len(s.leaves) + Len(s.unvisited_nodes) = Len(ns)
        rooted(ns, s, r) ==
            IF Len(ns) = 0 THEN r.ok /\ r.root = -1
            ELSE r.ok /\ r.root >= 0 /\ Materialized(ns, s, 0, r.root)
        built(ns, s) == counted(ns, s) /\ rooted(ns, s, root_node_idx(s))
    IN /\ built(nodes, build_initial_snapshot(nodes))
       /\ phase = "verify" => snap = build_initial_snapshot(nodes)

\* A snapshot was built from an arena that holds loaded branches, a loaded
\* leaf and entries never loaded, with a branch that is not the last one
\* being the left child of another.
C27_Witness ==
    /\ phase = "verify"
    /\ Len(snap.branches) >= 2
    /\ Len(snap.leaves) >= 1
    /\ Len(snap.unvisited_nodes) >= 2
    /\ \E i \in 1..Len(snap.branches) :
           /\ snap.branches[i].left < Len(snap.branches)
           /\ snap.branches[i].right >= Len(snap.branches) + Len(snap.leaves)

\* C28: calc_root_hash and commit of a prover transaction take the hash of
\* every Stored reference from its arena entry and fetch nothing from the
\* database: they return the same hash over a database that holds no node,
\* and after any number of them the arena, and the snapshot built from it,
\* are those of the execution of the same operations that made no such call.
C28_HashesLoadNothing ==
    LET blind == Builder(EmptyDb, nodes)
        from_arena(store) ==
            \A idx \in StoredIdxs(root) :
                /\ idx < Len(nodes)
                /\ calc_subtree_hash(store, idx) = Hashed(TRUE, nodes[idx + 1].hash)
        same_hash(c, h) == c.ok /\ h.ok /\ c.hash = h.hash
    IN ~panicked =>
           /\ from_arena(Builder(db, nodes)) /\ from_arena(blind)
           /\ calc_root_hash(Builder(db, nodes), root) = calc_root_hash(blind, root)
           /\ same_hash(commit(Builder(db, nodes), root), commit(blind, root))
           /\ nodes = t2.store.nodes
           /\ build_initial_snapshot(nodes) = build_initial_snapshot(t2.store.nodes)

\* calc_root_hash just returned, after a commit, on a trie with modified
\* nodes above Stored references, some to entries that were never loaded.
C28_Witness ==
    /\ last.op = "CalcRootHash" /\ last.ok
    /\ ncommits >= 1
    /\ nops >= 1
    /\ root.t = "B"
    /\ \E idx \in StoredIdxs(root) : nodes[idx + 1].node = NoneNode
    /\ \E idx \in StoredIdxs(root) : nodes[idx + 1].node # NoneNode

\* C29: on a Snapshot with b branches, l leaves and u unvisited hashes
\* get_node(idx) returns the branch for idx < b, the leaf for b <= idx < b + l
\* and an error for every idx >= b + l; calc_subtree_hash(idx) returns the
\* stored hash for b + l <= idx < b + l + u and an error for idx >= b + l + u;
\* neither call changes the snapshot.
C29_SnapshotStore ==
    LET node(s, b, l, idx, r) ==
            /\ r.store = s
            /\ idx < b => r.ok /\ r.node = s.branches[idx + 1]
            /\ (b <= idx /\ idx < b + l) => r.ok /\ r.node = s.leaves[idx - b + 1]
            /\ idx >= b + l => ~r.ok
        hash(s, v, u, idx, h) ==
            /\ (v <= idx /\ idx < v + u) =>
                   h = Hashed(TRUE, s.unvisited_nodes[idx - v + 1])
            /\ idx >= v + u => ~h.ok
        store(s, b, l, u) ==
            \A idx \in 0..(b + l + u + 1) :
                /\ node(s, b, l, idx, get_node(s, idx))
                /\ hash(s, b + l, u, idx, calc_subtree_hash(s, idx))
    IN /\ store(snap, Len(snap.branches), Len(snap.leaves), Len(snap.unvisited_nodes))
       /\ phase = "verify" => t2.store = snap

\* A transaction over a snapshot with entries in all three regions had a
\* call return Err.
C29_Witness ==
    /\ phase = "verify"
    /\ t2.nfail >= 1
    /\ Len(snap.branches) >= 1
    /\ Len(snap.leaves) >= 1
    /\ Len(snap.unvisited_nodes) >= 1

====
